---- MODULE Spec2Model ----
(***************************************************************************)
(* Workflow scheduling onto a heterogeneous pool of VMs.                   *)
(*                                                                         *)
(*   - BaseReadyQueueScheduler.schedule with the Best-Fit policy           *)
(*     (base_ready_queue.py, best_fit.py), one action per loop iteration.  *)
(*   - HeftScheduler.schedule (heft.py), one action per workflow of the    *)
(*     batch, on top of the list-scheduling package it calls.              *)
(*                                                                         *)
(* Times are Python floats length / cpu_speed_mips.  The model keeps them  *)
(* as integers in units of 1 / TimeScale, where TimeScale is a common      *)
(* multiple of every cpu speed of the inputs, so every quotient is exact.  *)
(* HEFT's upward ranks, means over the VMs, are held in finer units still. *)
(***************************************************************************)
EXTENDS Integers, Sequences, FiniteSets, TLC

\* ------------------------------------------------------------------ bounds
\* Largest number of tasks of one workflow.
MaxTasks == 3
\* Largest number of tasks of one input (all workflows together).
MaxTotalTasks == 4
\* Largest number of tasks of one input of the HEFT scheduler.
MaxHeftTotalTasks == 3
\* Largest number of workflows of one input.
MaxWorkflows == 2
\* Task lengths are 1..MaxLength.
MaxLength == 2
\* Memory requirements and VM memories are 1..MaxMemory.
MaxMemory == 2
\* VM speeds are 1..MaxSpeed.
MaxSpeed == 2
\* Largest number of VMs of one input.
MaxVms == 2
\* Largest number of schedule calls on one scheduler instance.
MaxRuns == 3
\* Largest number of tasks of one input of a call on a reused instance.
MaxReuseTasks == 2
\* Largest number of tasks of one malformed input, and the largest local id
\* and the largest workflow id its tasks carry.
MaxMalformedTasks == 3
MaxMalformedId == 1
MaxMalformedWorkflow == 1
\* Largest number of iterations of the dispatch loop that are followed.
MaxDispatches == 6
\* Largest number of parts, separated by colons, of an algorithm identifier.
MaxParts == 4
\* Number of VMs, and largest estimated completion time (in time units) of a
\* VM, of the run states schedule_next is applied to on its own.
MaxChoiceVms == 3
MaxChoiceTime == 2

RECURSIVE Factorial(_)
Factorial(n) == IF n <= 1 THEN 1 ELSE n * Factorial(n - 1)

\* A common multiple of every cpu speed: one time unit is TimeScale model
\* units, so that length / cpu_speed_mips is a whole number of them.
TimeScale == Factorial(MaxSpeed)

\* A common multiple of every count of VMs, the divisor of a mean over the
\* VMs: an upward rank is held in units of 1 / (TimeScale * RankScale).
RankScale == Factorial(MaxVms)

\* The Popen calls of one simulator runner.
MaxProcesses == 4

\* The observations of the wrapped environment: at most MaxObsTasks tasks of
\* lengths 1..MaxObsLength and MaxObsVms VMs of speeds 1..MaxObsSpeed and
\* energy 1..MaxObsEnergy per instruction, over at most MaxEpisodes episodes.
MaxObsTasks == 2
MaxObsVms == 2
MaxObsLength == 2
MaxObsSpeed == 2
MaxObsEnergy == 1
MaxEpisodes == 2

\* ------------------------------------------------------------ sequences
Range(s) == {s[i] : i \in DOMAIN s}

Max2(a, b) == IF a >= b THEN a ELSE b

RECURSIVE SumSeq(_)
SumSeq(s) == IF s = <<>> THEN 0 ELSE Head(s) + SumSeq(Tail(s))

RECURSIVE ConcatAll(_)
ConcatAll(ss) == IF ss = <<>> THEN <<>> ELSE Head(ss) \o ConcatAll(Tail(ss))

\* list.remove(x) that leaves the list as it is.
RemoveNothing(s, x) == s

\* list.remove(x): the list without its first occurrence of x.
RECURSIVE Remove(_, _)
Remove(s, x) ==
    IF s = <<>> THEN <<>>
    ELSE IF Head(s) = x THEN Tail(s)
    ELSE <<Head(s)>> \o Remove(Tail(s), x)

\* ------------------------------------------------------------ the inputs
\* TaskDto: workflow_id, id, length, req_memory_mb, child_ids (a list).
\* VmDto: id, cpu_speed_mips, memory_mb.
TaskDto(w, i, l, m, c) ==
    [workflow_id |-> w, id |-> i, length |-> l, req_memory_mb |-> m, child_ids |-> c]

VmDto(i, s, m) == [id |-> i, cpu_speed_mips |-> s, memory_mb |-> m]

\* The lists without repetition over a set, of every length.
RECURSIVE ListsOver(_)
ListsOver(S) ==
    {<<>>} \cup UNION {{<<x>> \o l : l \in ListsOver(S \ {x})} : x \in S}

\* The child lists of a workflow of n tasks with local ids 0..n-1: the child
\* relation is a DAG (children carry larger ids) whose only parentless task is
\* task 0.  shape[i + 1] is the child list of task i.
Shapes(n) ==
    {sh \in [1..n -> UNION {ListsOver(1..(n - 1))}] :
        /\ \A i \in 1..n : \A c \in Range(sh[i]) : c > i - 1
        /\ \A c \in 1..(n - 1) : \E i \in 1..n : c \in Range(sh[i])}

\* The workflows with id w and n tasks, listed in id order.
Workflows(w, n) ==
    {[i \in 1..n |-> TaskDto(w, i - 1, ls[i], ms[i], sh[i])] :
        sh \in Shapes(n), ls \in [1..n -> 1..MaxLength], ms \in [1..n -> 1..MaxMemory]}

\* The task counts of the workflows of one input of at most total tasks.
WorkflowSizes(total) ==
    {ns \in UNION {[1..k -> 1..MaxTasks] : k \in 1..MaxWorkflows} :
        SumSeq(ns) <= total}

\* The inputs with these task counts: workflow k has id k - 1, and the
\* workflows are listed one after the other.
RECURSIVE TaskListsOfSizes(_, _)
TaskListsOfSizes(ns, w) ==
    IF ns = <<>> THEN {<<>>}
    ELSE {wf \o rest : wf \in Workflows(w, Head(ns)),
                       rest \in TaskListsOfSizes(Tail(ns), w + 1)}

TaskListsUpTo(total) == UNION {TaskListsOfSizes(ns, 0) : ns \in WorkflowSizes(total)}

ValidTaskLists == TaskListsUpTo(MaxTotalTasks)

\* The VM lists: ids 0..n-1 in list order.
VmLists(lo) ==
    UNION {{[j \in 1..n |-> VmDto(j - 1, ss[j], ms[j])] :
                ss \in [1..n -> 1..MaxSpeed], ms \in [1..n -> 1..MaxMemory]} :
           n \in lo..MaxVms}

\* The valid task lists whose tasks all have length 1.
UnitTaskLists == {ts \in ValidTaskLists : \A i \in DOMAIN ts : ts[i].length = 1}

\* The inputs of several workflows, of tasks of unit length.
BatchTaskLists == {ts \in UnitTaskLists : \E i \in DOMAIN ts : ts[i].workflow_id # 0}

\* A task list whose last task is listed twice: its workflow carries the
\* same local id on two tasks.
DuplicatedTaskLists ==
    {ts \o <<ts[Len(ts)]>> : ts \in TaskListsUpTo(MaxHeftTotalTasks - 1)}

\* The inputs of HeftScheduler.schedule: the valid task lists, and lists
\* with a repeated task.
HeftTaskLists == TaskListsUpTo(MaxHeftTotalTasks) \cup DuplicatedTaskLists

\* The VM lists of at least two VMs (the package averages the communication
\* cost over the pairs of distinct VMs): their ids in list order, and, for
\* the lists whose VMs differ in memory, also in the reverse of it.
HeftVmLists ==
    VmLists(2) \cup
    {[j \in DOMAIN vs |-> [vs[j] EXCEPT !.id = Len(vs) - j]] :
        vs \in {x \in VmLists(2) : \E i, j \in DOMAIN x : x[i].memory_mb # x[j].memory_mb}}

\* One valid workflow of tasks of memory 1, its tasks listed in any order.
PermutedTaskLists ==
    UNION {{l \in ListsOver(Range(ts)) : Len(l) = Len(ts)} :
        ts \in {x \in UNION {TaskListsOfSizes(<<n>>, 0) : n \in 1..MaxHeftTotalTasks} :
                    \A i \in DOMAIN x : x[i].req_memory_mb = 1}}

\* The tasks of a list in the order of their local ids.
SortedById(ts) ==
    CHOOSE l \in ListsOver(Range(ts)) :
        /\ Len(l) = Len(ts)
        /\ \A i, j \in DOMAIN l : i < j => l[i].id < l[j].id

\* The inputs of the calls on a reused instance: short lists of tasks of
\* unit length, and VM lists of unit speed.
ReuseTaskLists ==
    {ts \in TaskListsUpTo(MaxReuseTasks) : \A i \in DOMAIN ts : ts[i].length = 1}

ReuseVmLists == {vs \in VmLists(1) : \A j \in DOMAIN vs : vs[j].cpu_speed_mips = 1}

ReuseHeftVmLists == {vs \in HeftVmLists : \A j \in DOMAIN vs : vs[j].cpu_speed_mips = 1}

\* The ascending lists over a set of numbers.
RECURSIVE AscendingLists(_)
AscendingLists(S) ==
    IF S = {} THEN {<<>>}
    ELSE LET x == CHOOSE y \in S : \A z \in S : y <= z
             rest == AscendingLists(S \ {x})
         IN rest \cup {<<x>> \o l : l \in rest}

\* Task lists that need not be valid: any workflow id and local id on any
\* task (a workflow without task 0, a local id used twice), any child list
\* (a child that is no task, a parentless task other than 0, a cycle).
MalformedTasks ==
    {TaskDto(w, i, 1, 1, c) :
        w \in 0..MaxMalformedWorkflow, i \in 0..MaxMalformedId,
        c \in AscendingLists(0..MaxMalformedId)}

MalformedTaskLists == UNION {[1..n -> MalformedTasks] : n \in 1..MaxMalformedTasks}

\* The diamond workflow: A (id 0) with the children B (id 1) and C (id 2)
\* in that order, both with the child D (id 3); every memory is 1.
Diamond(la, lb, lc, ld) ==
    <<TaskDto(0, 0, la, 1, <<1, 2>>), TaskDto(0, 1, lb, 1, <<3>>),
      TaskDto(0, 2, lc, 1, <<3>>), TaskDto(0, 3, ld, 1, <<>>)>>

\* VM1 and VM2 of the diamond scenario, of memory 2.
DiamondVmList(s1, s2) == <<VmDto(1, s1, 2), VmDto(2, s2, 2)>>

\* The scenario: lengths 100, 200, 100, 50; VM1 of speed 1, VM2 of speed 2.
DiamondTasks == Diamond(100, 200, 100, 50)

DiamondVms == DiamondVmList(1, 2)

\* The diamonds with the scenario's lengths in every place, on the pairs of
\* VMs of every speed.
DiamondLengths == {50, 100, 200}

DiamondTaskLists ==
    {Diamond(la, lb, lc, ld) : la \in DiamondLengths, lb \in DiamondLengths,
                               lc \in DiamondLengths, ld \in DiamondLengths}

DiamondVmLists == {DiamondVmList(s1, s2) : s1 \in 1..MaxSpeed, s2 \in 1..MaxSpeed}

\* The workflows whose only task has local id 0 and no children.
SingleEntryTaskLists == TaskListsOfSizes(<<1>>, 0)

\* --------------------------------------------------------------- state
VARIABLES
    pc,                        \* "idle", "running", "returned", "failed"
    tasks, vms,                \* the arguments of the running schedule call
    task_map, vm_map,          \* self.task_map, self.vm_map
    est_vm_completion_times,   \* self.est_vm_completion_times
    est_task_min_start_times,  \* self.est_task_min_start_times
    ready_tasks,               \* the list ready_tasks
    processed_tasks,           \* the set processed_tasks
    assignments,               \* the list assignments
    failure,                   \* the exception that ended the call, or "none"
    dispatched                 \* history: one record per loop iteration, with
                               \* the keys it appended to ready_tasks

VARIABLES
    hpc,                       \* "idle", "looping", "returned", "failed"
    htasks, hvms,              \* the arguments of HeftScheduler.schedule
    grouped_tasks,             \* the list of (workflow_id, task_list) items
    hk,                        \* the item of grouped_tasks the loop is at
    sched,                     \* sched: None, or proc -> list of events
    hassignments,              \* the list of (start, assignment) pairs
    assigning_task_start_id,
    hresult,                   \* the list schedule returns
    hfailure,                  \* the exception that ended the call, or "none"
    origin                     \* history: node id -> the task it was made for

rqvars == <<pc, tasks, vms, task_map, vm_map, est_vm_completion_times,
            est_task_min_start_times, ready_tasks, processed_tasks,
            assignments, failure, dispatched>>

VARIABLES
    runs,                      \* history: the ended calls of the ready-queue instance
    hruns                      \* history: the ended calls of the HEFT instance

hvars == <<hpc, htasks, hvms, grouped_tasks, hk, sched, hassignments,
           assigning_task_start_id, hresult, hfailure, origin>>

VARIABLES
    algorithm,                 \* the identifier get_scheduler is called with
    env_config,                \* "None" or "config"
    selected,                  \* what gym_simulator's get_scheduler gave
    viz_selected               \* what viz_results' get_scheduler gave

selvars == <<algorithm, env_config, selected, viz_selected>>

VARIABLES
    main_pc,                   \* static_all_runner.main: "idle", "looping",
                               \* "selecting", "resetting", "scheduling",
                               \* "recording", "ended", "raised"
    main_i,                    \* the place of the for loop in algorithms
    stats                      \* the list stats, as the identifiers recorded

mainvars == <<main_pc, main_i, stats>>

VARIABLES
    simulator_process,         \* self.simulator_process: NoProcess or a process
    processes,                 \* per started process, "alive" or "exited"
    runner_pc,                 \* "idle", or "sleeping" inside run()
    runner_outcome             \* history: how the last call on the runner ended

runnervars == <<simulator_process, processes, runner_pc, runner_outcome>>

VARIABLES
    static_obs,                \* self.static_obs: NoStaticObs or the three arrays
    prev_obs,                  \* self.prev_obs: NoObs or an observation
    wrapper_outcome,           \* history: the last call on the wrapper
    episode_obs,               \* history: the observation of the last reset
    used_static_obs,           \* history: what the last get_static_obs returned
    episodes,                  \* history: the number of resets
    episode_changed            \* history: the arrays cached before the last
                               \* reset are not those of its observation

wrappervars == <<static_obs, prev_obs, wrapper_outcome, episode_obs,
                 used_static_obs, episodes, episode_changed>>

extvars == <<mainvars, runnervars, wrappervars>>

histvars == <<runs, hruns, algorithm, env_config, selected, viz_selected, extvars>>

vars == <<rqvars, hvars, histvars>>

\* simulator_process is None; static_obs is None; prev_obs is not set.
NoProcess == 0

NoStaticObs == <<>>

NoObs == <<>>

\* A field that is None, and a field that holds the dict m.
None == [is_none |-> TRUE, map |-> <<>>]
Some(m) == [is_none |-> FALSE, map |-> m]

\* ---------------------------------------------------- helper functions
tid(task) == <<task.workflow_id, task.id>>

vid(vm) == vm.id

\* {self.tid(_task): _task for _task in tasks}: a later task replaces an
\* earlier one of the same key.
TaskMapOf(ts) ==
    [k \in {tid(ts[i]) : i \in DOMAIN ts} |->
        ts[CHOOSE i \in DOMAIN ts :
            /\ tid(ts[i]) = k
            /\ \A j \in DOMAIN ts : tid(ts[j]) = k => j <= i]]

\* {self.vid(_vm): _vm for _vm in vms}
VmMapOf(vs) ==
    [k \in {vid(vs[i]) : i \in DOMAIN vs} |->
        vs[CHOOSE i \in DOMAIN vs :
            /\ vid(vs[i]) = k
            /\ \A j \in DOMAIN vs : vid(vs[j]) = k => j <= i]]

get_task(task_id) == task_map.map[task_id]

\* BaseScheduler.is_vm_suitable: the VM's memory meets the task's requirement.
is_vm_suitable(vm, task) == task.req_memory_mb <= vm.memory_mb

\* task.length / vm.cpu_speed_mips, in model units.
ComputationTime(task, vm) == (task.length * TimeScale) \div vm.cpu_speed_mips

\* [self.tid(_task) for _task in tasks if _task.id == 0]
RECURSIVE EntryKeys(_)
EntryKeys(ts) ==
    IF ts = <<>> THEN <<>>
    ELSE (IF Head(ts).id = 0 THEN <<tid(Head(ts))>> ELSE <<>>) \o EntryKeys(Tail(ts))

\* ------------------------------------------------------------- Best-Fit
\* choose_next returning the last element of the ready list.
choose_nextLast(ready) == ready[Len(ready)]

\* choose_next: return ready_tasks[0]
choose_next(ready) == ready[1]

\* schedule_next without the suitability test.
BestFitStepAnyVm(task, vmlist, best, j) ==
    LET vm == vmlist[j] IN
    IF best = 0 THEN j
    ELSE IF task.req_memory_mb * vmlist[best].memory_mb
                > task.req_memory_mb * vm.memory_mb THEN j
    ELSE best

\* schedule_next taking the later VM of two of equal ratio whose estimated
\* completion times are equal.
BestFitStepLaterOnTie(task, vmlist, best, j) ==
    LET vm == vmlist[j] IN
    IF ~is_vm_suitable(vm, task) THEN best
    ELSE IF best = 0 THEN j
    ELSE IF task.req_memory_mb * vmlist[best].memory_mb
                > task.req_memory_mb * vm.memory_mb THEN j
    ELSE IF task.req_memory_mb * vmlist[best].memory_mb
                = task.req_memory_mb * vm.memory_mb
            /\ est_vm_completion_times.map[vid(vm)]
                <= est_vm_completion_times.map[vid(vmlist[best])] THEN j
    ELSE best

\* schedule_next without the comparison of the completion times.
BestFitStepIgnoreCompletion(task, vmlist, best, j) ==
    LET vm == vmlist[j] IN
    IF ~is_vm_suitable(vm, task) THEN best
    ELSE IF best = 0 THEN j
    ELSE IF task.req_memory_mb * vmlist[best].memory_mb
                > task.req_memory_mb * vm.memory_mb THEN j
    ELSE best

\* One iteration of the loop of schedule_next: best is the index in vms of
\* best_vm (0 for None); best_vm_allocation is the ratio of that VM.
\* vm_allocation > best_vm_allocation compares req / mem with req / best.mem.
BestFitStep(task, vmlist, best, j) ==
    LET vm == vmlist[j] IN
    IF ~is_vm_suitable(vm, task) THEN best
    ELSE IF best = 0 THEN j
    ELSE IF task.req_memory_mb * vmlist[best].memory_mb
                > task.req_memory_mb * vm.memory_mb THEN j
    ELSE IF task.req_memory_mb * vmlist[best].memory_mb
                = task.req_memory_mb * vm.memory_mb
            /\ est_vm_completion_times.map[vid(vm)]
                < est_vm_completion_times.map[vid(vmlist[best])] THEN j
    ELSE best

RECURSIVE BestFitScan(_, _, _, _)
BestFitScan(task, vmlist, best, j) ==
    IF j > Len(vmlist) THEN best
    ELSE BestFitScan(task, vmlist, BestFitStep(task, vmlist, best, j), j + 1)

\* schedule_next falling back on the first VM instead of raising.
schedule_nextFallback(task, vmlist) ==
    IF BestFitScan(task, vmlist, 0, 1) = 0 THEN 1 ELSE BestFitScan(task, vmlist, 0, 1)

\* The index in vms of the VM schedule_next returns; 0 when it raises.
schedule_next(task, vmlist) == BestFitScan(task, vmlist, 0, 1)

\* ------------------------------------------------- the ready-queue engine
Init ==
    /\ pc = "idle"
    /\ tasks = <<>>
    /\ vms = <<>>
    /\ task_map = None
    /\ vm_map = None
    /\ est_vm_completion_times = None
    /\ est_task_min_start_times = None
    /\ ready_tasks = <<>>
    /\ processed_tasks = {}
    /\ assignments = <<>>
    /\ failure = "none"
    /\ dispatched = <<>>
    /\ hpc = "idle"
    /\ htasks = <<>>
    /\ hvms = <<>>
    /\ grouped_tasks = <<>>
    /\ hk = 1
    /\ sched = None
    /\ hassignments = <<>>
    /\ assigning_task_start_id = 0
    /\ hresult = <<>>
    /\ hfailure = "none"
    /\ origin = <<>>
    /\ runs = <<>>
    /\ hruns = <<>>
    /\ algorithm = <<>>
    /\ env_config = "None"
    /\ selected = "nothing"
    /\ viz_selected = "nothing"
    /\ main_pc = "idle"
    /\ main_i = 1
    /\ stats = <<>>
    /\ simulator_process = NoProcess
    /\ processes = <<>>
    /\ runner_pc = "idle"
    /\ runner_outcome = "none"
    /\ static_obs = NoStaticObs
    /\ prev_obs = NoObs
    /\ wrapper_outcome = "none"
    /\ episode_obs = NoObs
    /\ used_static_obs = NoStaticObs
    /\ episodes = 0
    /\ episode_changed = FALSE

\* schedule that fills the two estimate maps only where the instance holds
\* no value yet.
ScheduleOnKeepEstimates(ts, vs) ==
    /\ pc' = "running"
    /\ tasks' = ts
    /\ vms' = vs
    /\ task_map' = Some(TaskMapOf(ts))
    /\ vm_map' = Some(VmMapOf(vs))
    /\ est_vm_completion_times' =
            Some([v \in {vid(vs[j]) : j \in DOMAIN vs} |->
                    IF ~est_vm_completion_times.is_none
                        /\ v \in DOMAIN est_vm_completion_times.map
                    THEN est_vm_completion_times.map[v] ELSE 0])
    /\ est_task_min_start_times' =
            Some([t \in {tid(ts[i]) : i \in DOMAIN ts} |->
                    IF ~est_task_min_start_times.is_none
                        /\ t \in DOMAIN est_task_min_start_times.map
                    THEN est_task_min_start_times.map[t] ELSE 0])
    /\ ready_tasks' = EntryKeys(ts)
    /\ processed_tasks' = {}
    /\ assignments' = <<>>
    /\ failure' = "none"
    /\ dispatched' = <<>>

\* schedule(tasks, vms), up to the loop.
ScheduleOn(ts, vs) ==
    /\ pc' = "running"
    /\ tasks' = ts
    /\ vms' = vs
    /\ task_map' = Some(TaskMapOf(ts))
    /\ vm_map' = Some(VmMapOf(vs))
    /\ est_vm_completion_times' = Some([v \in {vid(vs[j]) : j \in DOMAIN vs} |-> 0])
    /\ est_task_min_start_times' = Some([t \in {tid(ts[i]) : i \in DOMAIN ts} |-> 0])
    /\ ready_tasks' = EntryKeys(ts)
    /\ processed_tasks' = {}
    /\ assignments' = <<>>
    /\ failure' = "none"
    /\ dispatched' = <<>>

Schedule ==
    /\ pc = "idle"
    /\ \E ts \in ValidTaskLists, vs \in VmLists(1) : ScheduleOn(ts, vs)
    /\ UNCHANGED <<hvars, histvars>>

\* all_parents_processed counting the tasks of every workflow that name
\* child_id among their children.
AllParentsProcessedAnyWorkflow(w, child_id, processed) ==
    \A i \in DOMAIN tasks :
        child_id \in Range(tasks[i].child_ids) => tid(tasks[i]) \in processed

\* all_parents_processed: every task of workflow w that names child_id
\* among its children has its key in processed_tasks.
AllParentsProcessed(w, child_id, processed) ==
    \A i \in DOMAIN tasks :
        (tasks[i].workflow_id = w /\ child_id \in Range(tasks[i].child_ids))
            => tid(tasks[i]) \in processed

\* The first loop over task.child_ids stopping after the first child.
RaiseChildrenFirstOnly(m, w, children, completion_time) ==
    IF children = <<>> THEN m
    ELSE [m EXCEPT ![<<w, Head(children)>>] = Max2(completion_time, @)]

\* The first loop over task.child_ids raising the minimum start time of the
\* tasks of every workflow that carry the local id of a child.
RECURSIVE RaiseChildrenEveryWorkflow(_, _, _, _)
RaiseChildrenEveryWorkflow(m, w, children, completion_time) ==
    IF children = <<>> THEN m
    ELSE RaiseChildrenEveryWorkflow(
            [k \in DOMAIN m |->
                IF k[2] = Head(children) THEN Max2(completion_time, m[k]) ELSE m[k]],
            w, Tail(children), completion_time)

\* est_task_min_start_times after the first loop over task.child_ids; the
\* loop stops at a child whose key the map does not hold (KeyError).
RECURSIVE RaiseChildren(_, _, _, _)
RaiseChildren(m, w, children, completion_time) ==
    IF children = <<>> THEN m
    ELSE IF <<w, Head(children)>> \notin DOMAIN m THEN m
    ELSE RaiseChildren(
            [m EXCEPT ![<<w, Head(children)>>] = Max2(completion_time, @)],
            w, Tail(children), completion_time)

\* The second loop over task.child_ids without the test on the parents.
RECURSIVE AppendReadyAnyParent(_, _, _, _)
AppendReadyAnyParent(ready, w, children, processed) ==
    IF children = <<>> THEN ready
    ELSE LET c == <<w, Head(children)>> IN
         AppendReadyAnyParent(
            IF c \notin Range(ready) THEN Append(ready, c) ELSE ready,
            w, Tail(children), processed)

\* ready_tasks after the second loop over task.child_ids.
RECURSIVE AppendReady(_, _, _, _)
AppendReady(ready, w, children, processed) ==
    IF children = <<>> THEN ready
    ELSE LET c == <<w, Head(children)>> IN
         AppendReady(
            IF AllParentsProcessed(w, Head(children), processed) /\ c \notin Range(ready)
            THEN Append(ready, c) ELSE ready,
            w, Tail(children), processed)

\* completion_time taken from the task's minimum start time alone.
CompletionTimeFromMinStart(vm_completion, min_start, computation_time) ==
    min_start + computation_time

\* completion_time = max(est_vm_completion_times[vm], est_task_min_start_times[task])
\*                   + computation_time
CompletionTime(vm_completion, min_start, computation_time) ==
    Max2(vm_completion, min_start) + computation_time

\* Some child of the task has no entry in est_task_min_start_times.
UnknownChild(task) ==
    \E c \in Range(task.child_ids) :
        <<task.workflow_id, c>> \notin DOMAIN est_task_min_start_times.map

\* One iteration of the while loop.
Dispatch ==
    /\ pc = "running"
    /\ ready_tasks # <<>>
    /\ Len(dispatched) < MaxDispatches
    /\ UNCHANGED <<hvars, histvars>>
    /\ LET next_task_id == choose_next(ready_tasks)
           ready1 == Remove(ready_tasks, next_task_id)
           processed1 == processed_tasks \cup {next_task_id}
           task == get_task(next_task_id)
           sel == schedule_next(task, vms)
       IN
       IF sel = 0
       THEN \* raise Exception("No VM found for task")
            /\ pc' = "failed"
            /\ failure' = "NoVmFound"
            /\ ready_tasks' = ready1
            /\ processed_tasks' = processed1
            /\ UNCHANGED <<tasks, vms, task_map, vm_map, est_vm_completion_times,
                           est_task_min_start_times, assignments, dispatched>>
       ELSE LET selected_vm == vms[sel]
                computation_time == ComputationTime(task, selected_vm)
                start_time == Max2(est_vm_completion_times.map[vid(selected_vm)],
                                   est_task_min_start_times.map[tid(task)])
                completion_time ==
                    CompletionTime(est_vm_completion_times.map[vid(selected_vm)],
                                   est_task_min_start_times.map[tid(task)],
                                   computation_time)
            IN
            /\ assignments' = Append(assignments,
                    [vm_id |-> selected_vm.id, workflow_id |-> task.workflow_id,
                     task_id |-> task.id])
            /\ est_vm_completion_times' =
                    Some([est_vm_completion_times.map EXCEPT
                            ![vid(selected_vm)] = completion_time])
            /\ est_task_min_start_times' =
                    Some(RaiseChildren(est_task_min_start_times.map, task.workflow_id,
                                       task.child_ids, completion_time))
            /\ ready_tasks' =
                    IF UnknownChild(task) THEN ready1
                    ELSE AppendReady(ready1, task.workflow_id, task.child_ids,
                                     processed1)
            /\ processed_tasks' = processed1
            /\ pc' = IF UnknownChild(task) THEN "failed" ELSE pc
            /\ failure' = IF UnknownChild(task) THEN "KeyError" ELSE failure
            /\ dispatched' = Append(dispatched,
                    [task |-> next_task_id, vm |-> sel,
                     min_start |-> est_task_min_start_times.map[tid(task)],
                     start |-> start_time, completion |-> completion_time,
                     entered |-> SubSeq(ready_tasks', Len(ready1) + 1,
                                        Len(ready_tasks'))])
            /\ UNCHANGED <<tasks, vms, task_map, vm_map>>

\* The end of the call without the assertion on the count.
ReturnUnchecked ==
    /\ pc = "running"
    /\ ready_tasks = <<>>
    /\ UNCHANGED <<hvars, histvars>>
    /\ pc' = "returned"
    /\ failure' = "none"
    /\ est_vm_completion_times' = None
    /\ est_task_min_start_times' = None
    /\ UNCHANGED <<tasks, vms, task_map, vm_map, ready_tasks, processed_tasks,
                   assignments, dispatched>>

\* The loop has ended: the assertion on the count, the reset of the two
\* estimate maps, and the return.
Return ==
    /\ pc = "running"
    /\ ready_tasks = <<>>
    /\ UNCHANGED <<hvars, histvars>>
    /\ IF Len(assignments) = Len(tasks)
       THEN /\ pc' = "returned"
            /\ failure' = "none"
            /\ est_vm_completion_times' = None
            /\ est_task_min_start_times' = None
       ELSE /\ pc' = "failed"
            /\ failure' = "AssertionError"
            /\ UNCHANGED <<est_vm_completion_times, est_task_min_start_times>>
    /\ UNCHANGED <<tasks, vms, task_map, vm_map, ready_tasks, processed_tasks,
                   assignments, dispatched>>

Next == Schedule \/ Dispatch \/ Return

Spec == Init /\ [][Next]_vars

\* The calls on the valid inputs whose tasks have unit length.  schedule is
\* one sequential call: while the loop can take its next iteration it does,
\* and when the loop has ended the call goes on to its end.
ScheduleUnit ==
    /\ pc = "idle"
    /\ \E ts \in UnitTaskLists, vs \in VmLists(1) : ScheduleOn(ts, vs)
    /\ UNCHANGED <<hvars, histvars>>

LiveNext == ScheduleUnit \/ Dispatch \/ Return

SpecLive == Init /\ [][LiveNext]_vars /\ WF_vars(Dispatch) /\ WF_vars(Return)

\* ------------------------------------------ the list-scheduling package
\* heft.schedule_dag of the package HeftScheduler imports: upward ranks,
\* then insertion-based earliest-finish-time placement in descending rank.
\* An event is ScheduleEvent(task, start, end, proc); proc_schedules is the
\* list, per processor 0..n-1, of that processor's events.

\* np.inf, the cost of a task on a VM that cannot hold it.
Inf == -1

ScheduleEvent(t, s, e, p) == [task |-> t, start |-> s, end |-> e, proc |-> p]

\* task_schedules[node] is None.
NoEvent == ScheduleEvent(-1, 0, 0, -1)

\* a < b, where either may be inf.
LessThan(a, b) == a # Inf /\ (b = Inf \/ a < b)

SetMax(S) == CHOOSE x \in S : \A y \in S : x >= y

Predecessors(dag, n) == {e.src : e \in {x \in dag.edges : x.dst = n}}

Successors(dag, n) == {e.dst : e \in {x \in dag.edges : x.src = n}}

EdgeWeight(dag, u, v) == (CHOOSE e \in dag.edges : e.src = u /\ e.dst = v).weight

\* numExistingJobs: the events the schedule passed in already holds.
NumExistingJobs(ps) == SumSeq([p \in DOMAIN ps |-> Len(ps[p])])

AllEvents(ps) == UNION {Range(ps[p]) : p \in DOMAIN ps}

\* The mean of the entries of a cost row that are not inf, in rank units.
FiniteEntries(row) == {j \in DOMAIN row : row[j] # Inf}

MeanFinite(row) ==
    (SumSeq([j \in DOMAIN row |-> IF row[j] = Inf THEN 0 ELSE row[j]]) * RankScale)
        \div Cardinality(FiniteEntries(row))

\* An edge's weight over the mean of the communication matrix off its
\* diagonal (plus the mean startup cost, 0), in rank units.
AvgWeight(weight, comm) ==
    LET n == Len(comm)
        total == SumSeq([i \in 1..(n * n) |->
                    IF (i - 1) \div n = (i - 1) % n THEN 0
                    ELSE comm[((i - 1) \div n) + 1][((i - 1) % n) + 1]])
    IN (weight * n * (n - 1) * TimeScale * RankScale) \div total

\* _compute_ranku: the node's mean cost plus the largest, over its
\* successors, of the edge's average weight plus the successor's rank.
RECURSIVE RankU(_, _, _, _)
RankU(dag, comp, comm, node) ==
    LET succ == Successors(dag, node) IN
    MeanFinite(comp[node + 1])
        + (IF succ = {} THEN 0
           ELSE SetMax({AvgWeight(EdgeWeight(dag, node, c), comm)
                            + RankU(dag, comp, comm, c) : c \in succ}))

\* sorted(nodes, key=ranku, reverse=True): stable, by descending rank.
RECURSIVE InsertByRank(_, _, _)
InsertByRank(sorted, n, rank) ==
    IF sorted = <<>> THEN <<n>>
    ELSE IF rank[Head(sorted)] >= rank[n]
         THEN <<Head(sorted)>> \o InsertByRank(Tail(sorted), n, rank)
         ELSE <<n>> \o sorted

RECURSIVE SortByRank(_, _)
SortByRank(nodes, rank) ==
    IF nodes = <<>> THEN <<>>
    ELSE InsertByRank(SortByRank(SubSeq(nodes, 1, Len(nodes) - 1), rank),
                      nodes[Len(nodes)], rank)

\* The root node is moved to the front when the sort did not put it there.
RootFirst(order, root) ==
    IF order[1] = root THEN order
    ELSE LET idx == CHOOSE i \in DOMAIN order : order[i] = root IN
         [order EXCEPT ![1] = root, ![idx] = order[1]]

\* _compute_eft: the start of the earliest slot of a processor's job list
\* that takes a job of this computation time, no earlier than ready_time.
RECURSIVE FindSlot(_, _, _, _)
FindSlot(job_list, idx, ready_time, computation_time) ==
    IF job_list = <<>> THEN ready_time
    ELSE LET prev_job == job_list[idx] IN
         IF idx = 1 /\ (prev_job.start - computation_time) - ready_time > 0
         THEN ready_time
         ELSE IF idx = Len(job_list) THEN Max2(ready_time, prev_job.end)
         ELSE IF (job_list[idx + 1].start - computation_time)
                    - Max2(ready_time, prev_job.end) >= 0
         THEN Max2(ready_time, prev_job.end)
         ELSE FindSlot(job_list, idx + 1, ready_time, computation_time)

\* The time the data of every predecessor of the node has reached proc.
ReadyTime(st, dag, node, proc, comm, startup, off) ==
    SetMax({0} \cup
        {LET predjob == st.task_schedules[p + off] IN
         IF comm[predjob.proc + 1][proc + 1] = 0 THEN predjob.end
         ELSE predjob.end
                + (EdgeWeight(dag, p, node - off) * TimeScale)
                        \div comm[predjob.proc + 1][proc + 1]
                + startup[predjob.proc + 1]
         : p \in Predecessors(dag, node - off)})

compute_eft(st, dag, node, proc, comp, comm, startup, off) ==
    LET ready_time == ReadyTime(st, dag, node, proc, comm, startup, off)
        computation_time == comp[node - off + 1][proc + 1]
        job_list == st.proc_schedules[proc + 1]
    IN IF computation_time = Inf THEN ScheduleEvent(node, ready_time, Inf, proc)
       ELSE LET job_start == FindSlot(job_list, 1, ready_time, computation_time) IN
            ScheduleEvent(node, job_start, job_start + computation_time, proc)

\* The event of the smallest end over the processors p..n-1 and best; the
\* first of equal ends wins.
RECURSIVE MinEft(_, _, _, _, _, _, _, _, _)
MinEft(st, dag, node, proc, best, comp, comm, startup, off) ==
    IF proc >= Len(comm) THEN best
    ELSE LET taskschedule == compute_eft(st, dag, node, proc, comp, comm, startup, off) IN
         MinEft(st, dag, node, proc + 1,
                IF LessThan(taskschedule.end, best.end) THEN taskschedule ELSE best,
                comp, comm, startup, off)

\* sorted(jobs + [e], key=(end, start)) for a list already in that order.
RECURSIVE InsertEvent(_, _)
InsertEvent(job_list, e) ==
    IF job_list = <<>> THEN <<e>>
    ELSE IF Head(job_list).end < e.end
            \/ (Head(job_list).end = e.end /\ Head(job_list).start <= e.start)
         THEN <<Head(job_list)>> \o InsertEvent(Tail(job_list), e)
         ELSE <<e>> \o job_list

\* The assertion after each placement: on every processor each job ends
\* before the next one starts.
JobsInOrder(ps) ==
    \A p \in DOMAIN ps : \A i \in 1..(Len(ps[p]) - 1) : ps[p][i].end <= ps[p][i + 1].start

Failed(st, why) == [st EXCEPT !.ok = FALSE, !.error = why]

\* One iteration of the placement loop, for the (relabelled) node.
PlaceNode(st, dag, node, comp, comm, startup, off) ==
    IF st.task_schedules[node] # NoEvent THEN st
    ELSE IF \E p \in Predecessors(dag, node - off) : st.task_schedules[p + off] = NoEvent
    THEN Failed(st, "AssertionError")
    ELSE LET best == MinEft(st, dag, node, 0, ScheduleEvent(node, Inf, Inf, -1),
                            comp, comm, startup, off) IN
         IF best.proc = -1 THEN Failed(st, "KeyError")
         ELSE LET ps == [st.proc_schedules EXCEPT
                            ![best.proc + 1] = InsertEvent(@, best)] IN
              IF ~JobsInOrder(ps) THEN Failed(st, "AssertionError")
              ELSE [st EXCEPT !.proc_schedules = ps,
                              !.task_schedules = [@ EXCEPT ![node] = best]]

RECURSIVE PlaceAll(_, _, _, _, _, _, _)
PlaceAll(st, dag, order, comp, comm, startup, off) ==
    IF ~st.ok \/ order = <<>> THEN st
    ELSE PlaceAll(PlaceNode(st, dag, Head(order) + off, comp, comm, startup, off),
                  dag, Tail(order), comp, comm, startup, off)

\* schedule_dag(dag, comp, comm, startup, proc_schedules): ok with the new
\* proc_schedules, or the exception it raises.
schedule_dag(dag, comp, comm, startup, proc_schedules) ==
    LET n == Len(comm)
        ps0 == IF proc_schedules.is_none THEN [p \in 1..n |-> <<>>]
               ELSE proc_schedules.map
        off == NumExistingJobs(ps0)
        ids == (0..(off + Len(comp) - 1)) \cup {e.task : e \in AllEvents(ps0)}
        ts0 == [i \in ids |->
                  IF \E e \in AllEvents(ps0) : e.task = i
                  THEN CHOOSE e \in AllEvents(ps0) : e.task = i
                  ELSE NoEvent]
        st0 == [ok |-> TRUE, error |-> "none", proc_schedules |-> ps0,
                task_schedules |-> ts0]
        nodes == Range(dag.nodes)
        roots == {x \in nodes : Predecessors(dag, x) = {}}
        terminals == {x \in nodes : Successors(dag, x) = {}}
    IN IF \E x \in nodes : x + 1 > Len(comp) THEN Failed(st0, "IndexError")
       ELSE IF Cardinality(roots) # 1 \/ Cardinality(terminals) # 1
       THEN Failed(st0, "AssertionError")
       ELSE IF n = 1 /\ dag.edges # {}
       THEN \* the mean of the communication matrix off its diagonal is the
            \* mean of nothing, nan: no successor's value exceeds -1
            Failed(st0, "AssertionError")
       ELSE IF \E x \in nodes : FiniteEntries(comp[x + 1]) = {}
       THEN Failed(st0, "KeyError")
       ELSE LET rank == [x \in nodes |-> RankU(dag, comp, comm, x)]
                order == RootFirst(SortByRank(dag.nodes, rank),
                                   CHOOSE r \in roots : TRUE)
            IN PlaceAll(st0, dag, order, comp, comm, startup, off)

\* --------------------------------------------------------- HeftScheduler
\* The workflow ids in the order of their first task, and the tasks of one.
RECURSIVE WorkflowIds(_, _)
WorkflowIds(ts, seen) ==
    IF ts = <<>> THEN seen
    ELSE WorkflowIds(Tail(ts),
            IF Head(ts).workflow_id \in Range(seen) THEN seen
            ELSE Append(seen, Head(ts).workflow_id))

RECURSIVE TasksOf(_, _)
TasksOf(ts, w) ==
    IF ts = <<>> THEN <<>>
    ELSE (IF Head(ts).workflow_id = w THEN <<Head(ts)>> ELSE <<>>) \o TasksOf(Tail(ts), w)

\* grouped_tasks.items()
GroupedTasks(ts) ==
    [k \in DOMAIN WorkflowIds(ts, <<>>) |->
        [workflow_id |-> WorkflowIds(ts, <<>>)[k],
         task_list |-> TasksOf(ts, WorkflowIds(ts, <<>>)[k])]]

\* comp_matrix without the suitability test.
CompMatrixAnyVm(task_list, vmlist) ==
    [i \in 1..(Len(task_list) + 1) |->
        [j \in DOMAIN vmlist |->
            IF i = Len(task_list) + 1 THEN 0
            ELSE (task_list[i].length * TimeScale) \div vmlist[j].cpu_speed_mips]]

\* comp_matrix: a row per position of the task list, and the dummy's row.
CompMatrix(task_list, vmlist) ==
    [i \in 1..(Len(task_list) + 1) |->
        [j \in DOMAIN vmlist |->
            IF i = Len(task_list) + 1 THEN 0
            ELSE IF ~is_vm_suitable(vmlist[j], task_list[i]) THEN Inf
            ELSE (task_list[i].length * TimeScale) \div vmlist[j].cpu_speed_mips]]

\* comm_matrix = 1 - np.eye(total_vms), and comm_startup = zeros.
CommMatrix(total_vms) ==
    [i \in 1..total_vms |-> [j \in 1..total_vms |-> IF i = j THEN 0 ELSE 1]]

CommStartup(total_vms) == [j \in 1..total_vms |-> 0]

\* The nodes of the DiGraph in the order they are added: the dummy node,
\* then each task's id followed by the ids of its children.
RECURSIVE AddNodes(_, _)
AddNodes(nodes, ids) ==
    IF ids = <<>> THEN nodes
    ELSE AddNodes(IF Head(ids) \in Range(nodes) THEN nodes ELSE Append(nodes, Head(ids)),
                  Tail(ids))

RECURSIVE DagNodes(_, _)
DagNodes(nodes, task_list) ==
    IF task_list = <<>> THEN nodes
    ELSE DagNodes(AddNodes(nodes, <<Head(task_list).id>> \o Head(task_list).child_ids),
                  Tail(task_list))

\* The edges of the children turned around: from the child to the task.
DagEdgesReversed(task_list, dummy_task_id) ==
    UNION {IF task_list[i].child_ids = <<>>
           THEN {[src |-> task_list[i].id, dst |-> dummy_task_id, weight |-> 1]}
           ELSE {[src |-> c, dst |-> task_list[i].id, weight |-> 1] :
                    c \in Range(task_list[i].child_ids)}
           : i \in DOMAIN task_list}

\* The edges with weight 0 instead of 1.
DagEdgesUnweighted(task_list, dummy_task_id) ==
    UNION {IF task_list[i].child_ids = <<>>
           THEN {[src |-> task_list[i].id, dst |-> dummy_task_id, weight |-> 0]}
           ELSE {[src |-> task_list[i].id, dst |-> c, weight |-> 0] :
                    c \in Range(task_list[i].child_ids)}
           : i \in DOMAIN task_list}

\* The edges: a childless task to the dummy node, any other to its children,
\* each of weight 1.
DagEdges(task_list, dummy_task_id) ==
    UNION {IF task_list[i].child_ids = <<>>
           THEN {[src |-> task_list[i].id, dst |-> dummy_task_id, weight |-> 1]}
           ELSE {[src |-> task_list[i].id, dst |-> c, weight |-> 1] :
                    c \in Range(task_list[i].child_ids)}
           : i \in DOMAIN task_list}

\* The events of a list with their node ids shifted by off.
ShiftEvents(events, off) ==
    [i \in DOMAIN events |-> [events[i] EXCEPT !.task = @ + off]]

\* schedule_workflow that schedules the workflow on its own and appends its
\* events to those of the earlier schedule.
schedule_workflowAppended(task_list, vmlist, sched_in) ==
    LET dummy_task_id == Len(task_list)
        dag == [nodes |-> DagNodes(<<dummy_task_id>>, task_list),
                edges |-> DagEdges(task_list, dummy_task_id)]
        st == schedule_dag(dag, CompMatrix(task_list, vmlist), CommMatrix(Len(vmlist)),
                           CommStartup(Len(vmlist)), None)
    IN IF sched_in.is_none \/ ~st.ok THEN st
       ELSE [st EXCEPT !.proc_schedules =
                [p \in DOMAIN st.proc_schedules |->
                    sched_in.map[p]
                        \o ShiftEvents(st.proc_schedules[p], NumExistingJobs(sched_in.map))]]

\* schedule_workflow that hands no earlier schedule to the package.
schedule_workflowFresh(task_list, vmlist, sched_in) ==
    LET dummy_task_id == Len(task_list)
        dag == [nodes |-> DagNodes(<<dummy_task_id>>, task_list),
                edges |-> DagEdges(task_list, dummy_task_id)]
    IN schedule_dag(dag, CompMatrix(task_list, vmlist), CommMatrix(Len(vmlist)),
                    CommStartup(Len(vmlist)), None)

\* schedule_workflow(tasks, vms, sched)
schedule_workflow(task_list, vmlist, sched_in) ==
    LET dummy_task_id == Len(task_list)
        dag == [nodes |-> DagNodes(<<dummy_task_id>>, task_list),
                edges |-> DagEdges(task_list, dummy_task_id)]
    IN schedule_dag(dag, CompMatrix(task_list, vmlist), CommMatrix(Len(vmlist)),
                    CommStartup(Len(vmlist)), sched_in)

\* The extraction without the test of the id window: every event of the
\* schedule gives an entry.
RECURSIVE ExtractEventsUnfiltered(_, _, _, _, _)
ExtractEventsUnfiltered(events, vm_id, workflow_id, start_id, count) ==
    IF events = <<>> THEN <<>>
    ELSE LET event == Head(events)
             actual_task_id == event.task - start_id
         IN <<[start |-> event.start, vm_id |-> vm_id,
               workflow_id |-> workflow_id, task_id |-> actual_task_id,
               event_task |-> event.task, end |-> event.end]>>
            \o ExtractEventsUnfiltered(Tail(events), vm_id, workflow_id, start_id, count)

\* The (start, assignment) pairs of one VM's events that fall in the id
\* window of the workflow; vm_id is the key of the events in sched.
RECURSIVE ExtractEvents(_, _, _, _, _)
ExtractEvents(events, vm_id, workflow_id, start_id, count) ==
    IF events = <<>> THEN <<>>
    ELSE LET event == Head(events)
             actual_task_id == event.task - start_id
         IN (IF 0 <= actual_task_id /\ actual_task_id < count
             THEN <<[start |-> event.start, vm_id |-> vm_id,
                     workflow_id |-> workflow_id, task_id |-> actual_task_id,
                     event_task |-> event.task, end |-> event.end]>>
             ELSE <<>>)
            \o ExtractEvents(Tail(events), vm_id, workflow_id, start_id, count)

\* The window of the next workflow without the place of the dummy task.
NextStartIdNoDummy(start_id, task_list) == start_id + Len(task_list)

\* The window of the next workflow.
NextStartId(start_id, task_list) == start_id + Len(task_list) + 1

\* The insertion of a sort that puts an entry in front of its equals.
RECURSIVE InsertByStartBeforeEqual(_, _)
InsertByStartBeforeEqual(sorted, a) ==
    IF sorted = <<>> THEN <<a>>
    ELSE IF Head(sorted).start < a.start
         THEN <<Head(sorted)>> \o InsertByStartBeforeEqual(Tail(sorted), a)
         ELSE <<a>> \o sorted

\* assignments.sort(key=start): stable.
RECURSIVE InsertByStart(_, _)
InsertByStart(sorted, a) ==
    IF sorted = <<>> THEN <<a>>
    ELSE IF Head(sorted).start <= a.start
         THEN <<Head(sorted)>> \o InsertByStart(Tail(sorted), a)
         ELSE <<a>> \o sorted

RECURSIVE SortByStart(_)
SortByStart(as) ==
    IF as = <<>> THEN <<>>
    ELSE InsertByStart(SortByStart(SubSeq(as, 1, Len(as) - 1)), as[Len(as)])

\* HeftScheduler.schedule(tasks, vms), up to the loop over the workflows.
HeftScheduleOn(ts, vs) ==
    /\ hpc' = "looping"
    /\ htasks' = ts
    /\ hvms' = vs
    /\ grouped_tasks' = GroupedTasks(ts)
    /\ hk' = 1
    /\ sched' = None
    /\ hassignments' = <<>>
    /\ assigning_task_start_id' = 0
    /\ hresult' = <<>>
    /\ hfailure' = "none"
    /\ origin' = <<>>

HeftSchedule ==
    /\ hpc = "idle"
    /\ \E ts \in HeftTaskLists, vs \in HeftVmLists : HeftScheduleOn(ts, vs)
    /\ UNCHANGED <<rqvars, histvars>>

\* One iteration of the loop over grouped_tasks.items().
HeftWorkflow ==
    /\ hpc = "looping"
    /\ hk <= Len(grouped_tasks)
    /\ UNCHANGED <<rqvars, histvars>>
    /\ LET workflow_id == grouped_tasks[hk].workflow_id
           task_list == grouped_tasks[hk].task_list
           st == schedule_workflow(task_list, hvms, sched)
           off == IF sched.is_none THEN 0 ELSE NumExistingJobs(sched.map)
           made == {x + off : x \in Range(DagNodes(<<Len(task_list)>>, task_list))}
                        \ DOMAIN origin
       IN
       IF ~st.ok
       THEN /\ hpc' = "failed"
            /\ hfailure' = st.error
            /\ UNCHANGED <<htasks, hvms, grouped_tasks, hk, sched, hassignments,
                           assigning_task_start_id, hresult, origin>>
       ELSE /\ sched' = Some(st.proc_schedules)
            /\ hassignments' = hassignments \o
                    ConcatAll([p \in DOMAIN st.proc_schedules |->
                        ExtractEvents(st.proc_schedules[p], p - 1, workflow_id,
                                      assigning_task_start_id, Len(task_list))])
            /\ assigning_task_start_id' = NextStartId(assigning_task_start_id, task_list)
            /\ hk' = hk + 1
            /\ origin' = [x \in DOMAIN origin \cup made |->
                            IF x \in DOMAIN origin THEN origin[x]
                            ELSE [workflow_id |-> workflow_id, node |-> x - off,
                                  dummy |-> x - off = Len(task_list)]]
            /\ UNCHANGED <<hpc, htasks, hvms, grouped_tasks, hresult, hfailure>>

\* The loop has ended: the sort by start time, and the return.
HeftReturn ==
    /\ hpc = "looping"
    /\ hk > Len(grouped_tasks)
    /\ hpc' = "returned"
    /\ hresult' = SortByStart(hassignments)
    /\ UNCHANGED <<htasks, hvms, grouped_tasks, hk, sched, hassignments,
                   assigning_task_start_id, hfailure, origin>>
    /\ UNCHANGED <<rqvars, histvars>>

HeftNext == HeftSchedule \/ HeftWorkflow \/ HeftReturn

SpecHeft == Init /\ [][HeftNext]_vars

\* ------------------------------------------- calls on a reused instance
\* One scheduler instance is called up to MaxRuns times, each call after
\* the one before has ended; the last call repeats the input of the first.
\* The fields of the instance are left as the ended call left them.
EndedCall == [tasks |-> tasks, vms |-> vms, outcome |-> pc, failure |-> failure,
              assignments |-> assignments, dispatched |-> dispatched]

ScheduleFirst ==
    /\ pc = "idle"
    /\ hpc = "idle"
    /\ \E ts \in ReuseTaskLists, vs \in ReuseVmLists : ScheduleOn(ts, vs)
    /\ UNCHANGED <<hvars, histvars>>

ScheduleAgain ==
    /\ pc \in {"returned", "failed"}
    /\ Len(runs) + 1 < MaxRuns
    /\ runs' = Append(runs, EndedCall)
    /\ IF Len(runs) + 2 = MaxRuns
       THEN ScheduleOn(runs'[1].tasks, runs'[1].vms)
       ELSE \E ts \in ReuseTaskLists, vs \in ReuseVmLists : ScheduleOn(ts, vs)
    /\ UNCHANGED <<hvars, hruns, selvars, extvars>>

EndedHeftCall == [tasks |-> htasks, vms |-> hvms, outcome |-> hpc,
                  failure |-> hfailure, result |-> hresult]

HeftScheduleFirst ==
    /\ hpc = "idle"
    /\ pc = "idle"
    /\ \E ts \in ReuseTaskLists, vs \in ReuseHeftVmLists : HeftScheduleOn(ts, vs)
    /\ UNCHANGED <<rqvars, histvars>>

HeftScheduleAgain ==
    /\ hpc \in {"returned", "failed"}
    /\ Len(hruns) + 1 < MaxRuns
    /\ hruns' = Append(hruns, EndedHeftCall)
    /\ IF Len(hruns) + 2 = MaxRuns
       THEN HeftScheduleOn(hruns'[1].tasks, hruns'[1].vms)
       ELSE \E ts \in ReuseTaskLists, vs \in ReuseHeftVmLists : HeftScheduleOn(ts, vs)
    /\ UNCHANGED <<rqvars, runs, selvars, extvars>>

ReuseNext ==
    \/ ScheduleFirst \/ Dispatch \/ Return \/ ScheduleAgain
    \/ HeftScheduleFirst \/ HeftWorkflow \/ HeftReturn \/ HeftScheduleAgain

SpecReuse == Init /\ [][ReuseNext]_vars

\* ------------------------------------- a workflow of a batch on its own
\* A call on several workflows, and after it has ended a call of the same
\* instance on one of these workflows alone, on the same VM list.
ScheduleBatch ==
    /\ pc = "idle"
    /\ hpc = "idle"
    /\ \E ts \in BatchTaskLists, vs \in VmLists(1) : ScheduleOn(ts, vs)
    /\ UNCHANGED <<hvars, histvars>>

ScheduleAlone ==
    /\ pc \in {"returned", "failed"}
    /\ runs = <<>>
    /\ runs' = <<EndedCall>>
    /\ \E w \in {tasks[i].workflow_id : i \in DOMAIN tasks} :
            ScheduleOn(TasksOf(tasks, w), vms)
    /\ UNCHANGED <<hvars, hruns, selvars, extvars>>

AloneNext == ScheduleBatch \/ Dispatch \/ Return \/ ScheduleAlone

SpecAlone == Init /\ [][AloneNext]_vars

\* ------------------------------------ a workflow listed in another order
\* A call of HeftScheduler.schedule on a workflow whose tasks are listed in
\* any order, and after it has ended a call of the same instance on the
\* same tasks listed in the order of their local ids, on the same VM list.
HeftSchedulePermuted ==
    /\ hpc = "idle"
    /\ pc = "idle"
    /\ \E ts \in PermutedTaskLists, vs \in VmLists(2) : HeftScheduleOn(ts, vs)
    /\ UNCHANGED <<rqvars, histvars>>

HeftScheduleSorted ==
    /\ hpc \in {"returned", "failed"}
    /\ hruns = <<>>
    /\ hruns' = <<EndedHeftCall>>
    /\ HeftScheduleOn(SortedById(htasks), hvms)
    /\ UNCHANGED <<rqvars, runs, selvars, extvars>>

PermutedNext == HeftSchedulePermuted \/ HeftWorkflow \/ HeftReturn \/ HeftScheduleSorted

SpecPermuted == Init /\ [][PermutedNext]_vars

\* --------------------------------------------- calls on malformed inputs
ScheduleMalformed ==
    /\ pc = "idle"
    /\ \E ts \in MalformedTaskLists, vs \in ReuseVmLists : ScheduleOn(ts, vs)
    /\ UNCHANGED <<hvars, histvars>>

MalformedNext == ScheduleMalformed \/ Dispatch \/ Return

SpecMalformed == Init /\ [][MalformedNext]_vars

\* ------------------------------------------------------- the scenarios
\* One call of one of the two schedulers on an input of a scenario: a
\* diamond or a single-entry workflow for Best-Fit, a single-entry workflow
\* for HEFT, the latter two on every VM list, of one VM or more.
ScheduleScenario ==
    /\ pc = "idle"
    /\ hpc = "idle"
    /\ \/ \E ts \in DiamondTaskLists, vs \in DiamondVmLists : ScheduleOn(ts, vs)
       \/ \E ts \in SingleEntryTaskLists, vs \in VmLists(1) : ScheduleOn(ts, vs)
    /\ UNCHANGED <<hvars, histvars>>

HeftScheduleScenario ==
    /\ hpc = "idle"
    /\ pc = "idle"
    /\ \E ts \in SingleEntryTaskLists, vs \in VmLists(1) : HeftScheduleOn(ts, vs)
    /\ UNCHANGED <<rqvars, histvars>>

ScenarioNext ==
    \/ ScheduleScenario \/ Dispatch \/ Return
    \/ HeftScheduleScenario \/ HeftWorkflow \/ HeftReturn

SpecScenario == Init /\ [][ScenarioNext]_vars

\* ------------------------------------------- schedule_next on its own
\* schedule_next applied in a run state of the engine: a ready task, a VM
\* list, and estimated completion times the earlier dispatches left.
EnterRunState ==
    /\ pc = "idle"
    /\ \E m \in 1..MaxMemory,
          ms \in [1..MaxChoiceVms -> 1..MaxMemory],
          ct \in [0..(MaxChoiceVms - 1) -> 0..MaxChoiceTime] :
            LET ts == <<TaskDto(0, 0, 1, m, <<>>)>>
                vs == [j \in 1..MaxChoiceVms |-> VmDto(j - 1, 1, ms[j])]
            IN /\ pc' = "running"
               /\ tasks' = ts
               /\ vms' = vs
               /\ task_map' = Some(TaskMapOf(ts))
               /\ vm_map' = Some(VmMapOf(vs))
               /\ est_vm_completion_times' = Some([v \in DOMAIN ct |-> ct[v] * TimeScale])
               /\ est_task_min_start_times' = Some([t \in {tid(ts[1])} |-> 0])
               /\ ready_tasks' = EntryKeys(ts)
               /\ processed_tasks' = {}
               /\ assignments' = <<>>
               /\ failure' = "none"
               /\ dispatched' = <<>>
    /\ UNCHANGED <<hvars, histvars>>

ChooseVm ==
    /\ pc = "running"
    /\ dispatched = <<>>
    /\ pc' = "chosen"
    /\ dispatched' = <<[task |-> choose_next(ready_tasks),
                         vm |-> schedule_next(get_task(choose_next(ready_tasks)), vms)]>>
    /\ UNCHANGED <<tasks, vms, task_map, vm_map, est_vm_completion_times,
                   est_task_min_start_times, ready_tasks, processed_tasks,
                   assignments, failure>>
    /\ UNCHANGED <<hvars, histvars>>

ChoiceNext == EnterRunState \/ ChooseVm

SpecChoice == Init /\ [][ChoiceNext]_vars

\* ------------------------------------- the engine and the policy calls
\* The runs of the engine, and choose_next and schedule_next called on their
\* own in a run state: the one a call on a valid input starts its loop in,
\* or one with estimated completion times earlier dispatches left.
FrameNext == Schedule \/ EnterRunState \/ Dispatch \/ Return \/ ChooseVm

SpecFrame == Init /\ [][FrameNext]_vars

\* ------------------------------------------------- scheduler selection
\* An algorithm identifier is held as the list of its parts between colons,
\* algorithm.split(":"): "best_fit" is <<"best_fit">>, "rl:a:b:c" is
\* <<"rl", "a", "b", "c">>, "" is <<"">>.  So algorithm == name is
\* algorithm = <<name>>, and algorithm.startswith(name + ":") is a first
\* part equal to name followed by at least one more part.
StartsWith(alg, name) == alg[1] = name /\ Len(alg) >= 2

\* The first parts and the further parts the identifiers are made of.
FirstParts ==
    {"round_robin", "best_fit", "min_min", "max_min", "cp_sat", "heft", "heft_one",
     "power_saving", "rl_static", "rlh", "rl", "fjssp", "gin_e", "best", "heft2", ""}

FurtherParts == {"a", "a_b", "a_b_c", ""}

\* len(part.split("_"))
UnderscorePieces(part) ==
    IF part = "a_b" THEN 2 ELSE IF part = "a_b_c" THEN 3 ELSE 1

Identifiers ==
    UNION {{<<f>> \o r : f \in FirstParts, r \in [1..n -> FurtherParts]} :
           n \in 0..(MaxParts - 1)}

\* get_scheduler with a scheduler of last resort in place of the raise.
get_schedulerWithDefault(alg, config) ==
    IF alg = <<"round_robin">> THEN "RoundRobinScheduler"
    ELSE IF alg = <<"best_fit">> THEN "BestFitScheduler"
    ELSE IF alg = <<"min_min">> THEN "MinMinScheduler"
    ELSE IF alg = <<"max_min">> THEN "MaxMinScheduler"
    ELSE IF alg = <<"cp_sat">> THEN "CpSatScheduler"
    ELSE IF alg = <<"heft">> THEN "HeftScheduler"
    ELSE IF alg = <<"heft_one">> THEN "HeftOneScheduler"
    ELSE IF alg = <<"power_saving">> THEN "PowerSavingScheduler"
    ELSE IF alg = <<"rl_static">>
         THEN IF config = "None" THEN "AssertionError" ELSE "RlStaticScheduler"
    ELSE IF StartsWith(alg, "rlh")
         THEN IF config = "None" THEN "AssertionError"
              ELSE IF Len(alg) # 2 THEN "AssertionError"
              ELSE "RlHeuristicScheduler"
    ELSE IF StartsWith(alg, "rl")
         THEN IF config = "None" THEN "AssertionError"
              ELSE IF Len(alg) # 4 THEN "AssertionError"
              ELSE "RlTestScheduler"
    ELSE IF StartsWith(alg, "fjssp")
         THEN IF Len(alg) # 2 THEN "AssertionError"
              ELSE IF UnderscorePieces(alg[2]) # 2 THEN "AssertionError"
              ELSE "FjsspScheduler"
    ELSE "BestFitScheduler"

\* gym_simulator's get_scheduler(algorithm, env_config): the class of the
\* scheduler it returns, or the exception it raises.
get_scheduler(alg, config) ==
    IF alg = <<"round_robin">> THEN "RoundRobinScheduler"
    ELSE IF alg = <<"best_fit">> THEN "BestFitScheduler"
    ELSE IF alg = <<"min_min">> THEN "MinMinScheduler"
    ELSE IF alg = <<"max_min">> THEN "MaxMinScheduler"
    ELSE IF alg = <<"cp_sat">> THEN "CpSatScheduler"
    ELSE IF alg = <<"heft">> THEN "HeftScheduler"
    ELSE IF alg = <<"heft_one">> THEN "HeftOneScheduler"
    ELSE IF alg = <<"power_saving">> THEN "PowerSavingScheduler"
    ELSE IF alg = <<"rl_static">>
         THEN IF config = "None" THEN "AssertionError" ELSE "RlStaticScheduler"
    ELSE IF StartsWith(alg, "rlh")
         THEN IF config = "None" THEN "AssertionError"
              ELSE IF Len(alg) # 2 THEN "AssertionError"
              ELSE "RlHeuristicScheduler"
    ELSE IF StartsWith(alg, "rl")
         THEN IF config = "None" THEN "AssertionError"
              ELSE IF Len(alg) # 4 THEN "AssertionError"
              ELSE "RlTestScheduler"
    ELSE IF StartsWith(alg, "fjssp")
         THEN IF Len(alg) # 2 THEN "AssertionError"
              ELSE IF UnderscorePieces(alg[2]) # 2 THEN "AssertionError"
              ELSE "FjsspScheduler"
    ELSE "ValueError"

\* viz_results' get_scheduler(algorithm): strategy is the first part, args
\* the further ones.
viz_get_scheduler(alg) ==
    LET strategy == alg[1] IN
    IF strategy = "round_robin" THEN "RoundRobinScheduler"
    ELSE IF strategy = "best_fit" THEN "BestFitScheduler"
    ELSE IF strategy = "min_min" THEN "MinMinScheduler"
    ELSE IF strategy = "max_min" THEN "MaxMinScheduler"
    ELSE IF strategy = "cp_sat" THEN "CpSatScheduler"
    ELSE IF strategy = "heft" THEN "HeftScheduler"
    ELSE IF strategy = "power_saving" THEN "PowerSavingScheduler"
    ELSE IF strategy = "gin_e"
         THEN IF Len(alg) < 3 THEN "IndexError" ELSE "GinEAgentScheduler"
    ELSE "ValueError"

\* A caller picks an identifier, and each get_scheduler is called with it.
ChooseAlgorithm ==
    /\ algorithm = <<>>
    /\ \E alg \in Identifiers, config \in {"None", "config"} :
            /\ algorithm' = alg
            /\ env_config' = config
    /\ UNCHANGED <<rqvars, hvars, runs, hruns, selected, viz_selected, extvars>>

GetScheduler ==
    /\ algorithm # <<>>
    /\ selected = "nothing"
    /\ selected' = get_scheduler(algorithm, env_config)
    /\ UNCHANGED <<rqvars, hvars, runs, hruns, algorithm, env_config, viz_selected, extvars>>

VizGetScheduler ==
    /\ algorithm # <<>>
    /\ viz_selected = "nothing"
    /\ viz_selected' = viz_get_scheduler(algorithm)
    /\ UNCHANGED <<rqvars, hvars, runs, hruns, algorithm, env_config, selected, extvars>>

SelectNext == ChooseAlgorithm \/ GetScheduler \/ VizGetScheduler

SpecSelect == Init /\ [][SelectNext]_vars

\* --------------------------------------- the comparison of the algorithms
\* static_all_runner.main: the list of identifiers its loop goes over, each
\* one a single part, as none holds a colon.
algorithms ==
    << <<"round_robin">>, <<"max_min">>, <<"min_min">>, <<"best_fit">>,
       <<"fjssp_fifo_spt">>, <<"fjssp_fifo_eet">>, <<"fjssp_mopnr_spt">>,
       <<"fjssp_mopnr_eet">>, <<"fjssp_lwkr_spt">>, <<"fjssp_lwkr_eet">>,
       <<"fjssp_mwkr_spt">>, <<"fjssp_mwkr_eet">>, <<"cp_sat">>, <<"heft">> >>

\* What get_scheduler gives is an exception it raised.
IsRaised(result) == result \in {"ValueError", "AssertionError"}

\* main, up to the loop.
MainStart ==
    /\ main_pc = "idle"
    /\ pc = "idle"
    /\ hpc = "idle"
    /\ algorithm = <<>>
    /\ main_pc' = "looping"
    /\ main_i' = 1
    /\ stats' = <<>>
    /\ UNCHANGED <<rqvars, hvars, runs, hruns, selvars, runnervars, wrappervars>>

\* for algorithm in algorithms: the next identifier, or the end of the loop
\* and the rest of main.
MainForAlgorithm ==
    /\ main_pc = "looping"
    /\ IF main_i <= Len(algorithms)
       THEN /\ algorithm' = algorithms[main_i]
            /\ main_pc' = "selecting"
       ELSE /\ main_pc' = "ended"
            /\ UNCHANGED algorithm
    /\ UNCHANGED <<rqvars, hvars, runs, hruns, env_config, selected, viz_selected,
                   main_i, stats, runnervars, wrappervars>>

\* scheduler = algorithm_strategy.get_scheduler(algorithm): env_config is
\* left to its default None; an exception leaves main.
MainGetScheduler ==
    /\ main_pc = "selecting"
    /\ selected' = get_scheduler(algorithm, "None")
    /\ main_pc' = IF IsRaised(selected') THEN "raised" ELSE "resetting"
    /\ UNCHANGED <<rqvars, hvars, runs, hruns, algorithm, env_config, viz_selected,
                   main_i, stats, runnervars, wrappervars>>

\* (tasks, vms), _ = env.reset() and the call scheduler.schedule(tasks, vms).
\* The call on the Best-Fit scheduler, a new instance, is the call of the
\* ready-queue engine; the call on any other scheduler is one step here.
MainSchedule ==
    /\ main_pc = "resetting"
    /\ IF selected = "BestFitScheduler"
       THEN /\ \E ts \in UnitTaskLists, vs \in VmLists(1) : ScheduleOn(ts, vs)
            /\ main_pc' = "scheduling"
       ELSE /\ main_pc' = "recording"
            /\ UNCHANGED rqvars
    /\ UNCHANGED <<hvars, runs, hruns, selvars, main_i, stats, runnervars, wrappervars>>

\* The rest of the iteration after schedule returned: env.step, the chart
\* and stats.append.
MainRecord ==
    /\ \/ main_pc = "recording"
       \/ main_pc = "scheduling" /\ pc = "returned"
    /\ stats' = Append(stats, algorithm)
    /\ main_i' = main_i + 1
    /\ main_pc' = "looping"
    /\ UNCHANGED <<rqvars, hvars, runs, hruns, selvars, runnervars, wrappervars>>

\* schedule raised: the exception leaves main.
MainScheduleRaised ==
    /\ main_pc = "scheduling"
    /\ pc = "failed"
    /\ main_pc' = "raised"
    /\ UNCHANGED <<rqvars, hvars, runs, hruns, selvars, main_i, stats,
                   runnervars, wrappervars>>

MainNext ==
    \/ MainStart
    \/ MainForAlgorithm
    \/ MainGetScheduler
    \/ MainSchedule
    \/ Dispatch
    \/ Return
    \/ MainRecord
    \/ MainScheduleRaised

SpecMain == Init /\ [][MainNext]_vars

\* ------------------------------------------------ the simulator runner
\* CloudSimSimulatorRunner.  A process is named by the place of its Popen
\* among those of the runner; it is "alive" until it exits, by itself at
\* any moment or terminated by stop, and "exited" from then on.

\* is_running without the poll of the process.
is_runningReferenced == simulator_process # NoProcess

\* is_running: a process is referenced and its poll() is None.
is_running ==
    /\ simulator_process # NoProcess
    /\ processes[simulator_process] = "alive"

\* run, up to time.sleep(5): Popen starts a process and the runner
\* references it, whatever it referenced before.
RunPopen ==
    /\ runner_pc = "idle"
    /\ Len(processes) < MaxProcesses
    /\ processes' = Append(processes, "alive")
    /\ simulator_process' = Len(processes) + 1
    /\ runner_pc' = "sleeping"
    /\ runner_outcome' = "run_started"
    /\ UNCHANGED <<rqvars, hvars, runs, hruns, selvars, mainvars, wrappervars>>

\* run whose Popen raises: no process is started, nothing is assigned.
RunPopenRaised ==
    /\ runner_pc = "idle"
    /\ runner_outcome' = "popen_raised"
    /\ UNCHANGED <<rqvars, hvars, runs, hruns, selvars, mainvars, wrappervars,
                   simulator_process, processes, runner_pc>>

\* run after the sleep: it raises if the process is not running.
RunCheck ==
    /\ runner_pc = "sleeping"
    /\ runner_pc' = "idle"
    /\ runner_outcome' = IF is_running THEN "run_returned" ELSE "run_raised"
    /\ UNCHANGED <<rqvars, hvars, runs, hruns, selvars, mainvars, wrappervars,
                   simulator_process, processes>>

\* stop: terminate and wait end the referenced process, and the reference
\* is dropped; nothing of it when the runner is not running.
Stop ==
    /\ runner_pc = "idle"
    /\ IF is_running
       THEN /\ processes' = [processes EXCEPT ![simulator_process] = "exited"]
            /\ simulator_process' = NoProcess
       ELSE UNCHANGED <<simulator_process, processes>>
    /\ runner_outcome' = "stop_returned"
    /\ UNCHANGED <<rqvars, hvars, runs, hruns, selvars, mainvars, wrappervars,
                   runner_pc>>

\* A simulator process exits by itself.
SimulatorExit ==
    /\ \E p \in DOMAIN processes :
            /\ processes[p] = "alive"
            /\ processes' = [processes EXCEPT ![p] = "exited"]
    /\ UNCHANGED <<rqvars, hvars, runs, hruns, selvars, mainvars, wrappervars,
                   simulator_process, runner_pc, runner_outcome>>

RunnerNext == RunPopen \/ RunPopenRaised \/ RunCheck \/ Stop \/ SimulatorExit

SpecRunner == Init /\ [][RunnerNext]_vars

\* ------------------------------------------- the observation wrapper
\* GinEAgentWrapper.  An observation holds the task observations (length,
\* assigned_vm_id), the VM observations (cpu_speed_mips, and the energy per
\* instruction that energy_consumption_per_mi reads off the VM) and the
\* compatibilities, pairs (task id, vm id) with ids from 0.  NotAssigned is
\* an assigned_vm_id of None.  Costs are in units of 1/ObsCostScale, which
\* keeps every quotient and every average a whole number; NaN is the
\* average over no compatible VM.
NotAssigned == -1

NaN == -2

ObsCostScale == Factorial(MaxObsSpeed) * Factorial(MaxObsVms)

Observations ==
    UNION {{[task_observations |->
                [t \in 1..nt |-> [length |-> ls[t], assigned_vm_id |-> NotAssigned]],
             vm_observations |->
                [v \in 1..nv |-> [cpu_speed_mips |-> ss[v], energy_per_mi |-> es[v]]],
             compatibilities |-> c] :
                ls \in [1..nt -> 1..MaxObsLength],
                ss \in [1..nv -> 1..MaxObsSpeed],
                es \in [1..nv -> 1..MaxObsEnergy],
                c \in SUBSET ((0..(nt - 1)) \X (0..(nv - 1)))} :
           nt \in 1..MaxObsTasks, nv \in 1..MaxObsVms}

energy_consumption_per_mi(vm) == vm.energy_per_mi

RECURSIVE SumRow(_, _, _)
SumRow(row, mask, v) ==
    IF v = 0 THEN 0 ELSE row[v] * mask[v] + SumRow(row, mask, v - 1)

\* The body of get_static_obs below its test of the cache: the three arrays
\* of an observation, with the entries of the incompatible pairs replaced
\* by the average over the compatible VMs of the task.
ComputeStaticObs(observation) ==
    LET num_tasks == Len(observation.task_observations)
        num_vms == Len(observation.vm_observations)
        task_vm_compatibility ==
            [t \in 1..num_tasks |-> [v \in 1..num_vms |->
                IF <<t - 1, v - 1>> \in observation.compatibilities THEN 1 ELSE 0]]
        time_cost(t, v) ==
            (observation.task_observations[t].length * ObsCostScale)
                \div observation.vm_observations[v].cpu_speed_mips
        energy_cost(t, v) ==
            energy_consumption_per_mi(observation.vm_observations[v])
                * observation.task_observations[t].length * ObsCostScale
        task_vm_time_cost ==
            [t \in 1..num_tasks |-> [v \in 1..num_vms |->
                IF task_vm_compatibility[t][v] = 1 THEN time_cost(t, v) ELSE 0]]
        task_vm_energy_cost ==
            [t \in 1..num_tasks |-> [v \in 1..num_vms |->
                IF task_vm_compatibility[t][v] = 1 THEN energy_cost(t, v) ELSE 0]]
        compatible(t) == SumRow(task_vm_compatibility[t], task_vm_compatibility[t], num_vms)
        avg(row, t) ==
            IF compatible(t) = 0 THEN NaN
            ELSE SumRow(row, task_vm_compatibility[t], num_vms) \div compatible(t)
    IN  <<task_vm_compatibility,
          [t \in 1..num_tasks |-> [v \in 1..num_vms |->
              IF task_vm_compatibility[t][v] = 1 THEN task_vm_time_cost[t][v]
              ELSE avg(task_vm_time_cost[t], t)]],
          [t \in 1..num_tasks |-> [v \in 1..num_vms |->
              IF task_vm_compatibility[t][v] = 1 THEN task_vm_energy_cost[t][v]
              ELSE avg(task_vm_energy_cost[t], t)]]>>

\* get_static_obs: the cached arrays if there are any, else the arrays of
\* the observation, which it also caches.
get_static_obs(cache, observation) ==
    IF cache # NoStaticObs THEN cache ELSE ComputeStaticObs(observation)

\* map_action: the pair (task id, vm id) of an action.
map_action(action) ==
    LET vm_count == Len(prev_obs.vm_observations)
    IN  [task_id |-> action \div vm_count, vm_id |-> action % vm_count]

\* reset that leaves the cache as it is.
resetKeepingCache(obs) ==
    /\ static_obs' = get_static_obs(static_obs, obs)
    /\ used_static_obs' = static_obs'
    /\ prev_obs' = obs

\* reset, after super().reset gave obs: the cache is dropped, then the
\* observation is mapped, then it becomes prev_obs.
reset(obs) ==
    /\ static_obs' = get_static_obs(NoStaticObs, obs)
    /\ used_static_obs' = static_obs'
    /\ prev_obs' = obs

Reset ==
    /\ episodes < MaxEpisodes
    /\ \E obs \in Observations :
            /\ reset(obs)
            /\ episode_obs' = obs
            /\ episode_changed' =
                    (static_obs # NoStaticObs /\ static_obs # ComputeStaticObs(obs))
    /\ episodes' = episodes + 1
    /\ wrapper_outcome' = "reset"
    /\ UNCHANGED <<rqvars, hvars, runs, hruns, selvars, mainvars, runnervars>>

\* step(action) on a task that is not assigned yet: super().step gives the
\* observation of the same episode with the task assigned to the VM; it is
\* mapped and becomes prev_obs.
Step ==
    /\ prev_obs # NoObs
    /\ \E action \in 0..(Len(prev_obs.task_observations)
                            * Len(prev_obs.vm_observations) - 1) :
            LET mapped_action == map_action(action)
                obs == [prev_obs EXCEPT
                           !.task_observations[mapped_action.task_id + 1].assigned_vm_id =
                                mapped_action.vm_id]
            IN  /\ prev_obs.task_observations[mapped_action.task_id + 1].assigned_vm_id
                        = NotAssigned
                /\ static_obs' = get_static_obs(static_obs, obs)
                /\ used_static_obs' = static_obs'
                /\ prev_obs' = obs
    /\ wrapper_outcome' = "step"
    /\ UNCHANGED <<rqvars, hvars, runs, hruns, selvars, mainvars, runnervars,
                   episode_obs, episodes, episode_changed>>

WrapperNext == Reset \/ Step

SpecWrapper == Init /\ [][WrapperNext]_vars

\* ------------------------------------------------ notions of the claims
\* The keys of the input tasks, and the keys a list of assignments names.
TaskKeys == {tid(tasks[i]) : i \in DOMAIN tasks}

AssignmentKey(a) == <<a.workflow_id, a.task_id>>

\* The input tasks with an edge to the task of key k (same workflow).
ParentsOf(k) ==
    {i \in DOMAIN tasks : tasks[i].workflow_id = k[1] /\ k[2] \in Range(tasks[i].child_ids)}

\* Some VM of the list has the memory the task requires.
HasSuitableVm(task, vmlist) ==
    \E j \in DOMAIN vmlist : task.req_memory_mb <= vmlist[j].memory_mb

\* The VM of the input that carries this id.
VmOfId(vmlist, i) == vmlist[CHOOSE j \in DOMAIN vmlist : vmlist[j].id = i]

\* C1: completeness of the ready-queue engine under Best-Fit.  On a valid
\* input no key is ever assigned twice; the call never ends in the failed
\* count assertion, and it fails only when a dispatched task has no suitable
\* VM; when it returns, the assignments are as many as the input tasks and
\* every task key occurs in exactly one of them.
C1_Completeness ==
    /\ \A i, j \in DOMAIN assignments :
            AssignmentKey(assignments[i]) = AssignmentKey(assignments[j]) => i = j
    /\ pc = "failed" =>
            /\ failure = "NoVmFound"
            /\ \E i \in DOMAIN tasks : ~HasSuitableVm(tasks[i], vms)
    /\ pc = "returned" =>
            /\ Len(assignments) = Len(tasks)
            /\ \A k \in TaskKeys :
                    Cardinality({i \in DOMAIN assignments :
                                    AssignmentKey(assignments[i]) = k}) = 1

\* A returned run over two workflows in which some task has two parents.
C1_Witness ==
    /\ pc = "returned"
    /\ Len(tasks) = 4
    /\ \E i, j \in DOMAIN tasks : tasks[i].workflow_id # tasks[j].workflow_id
    /\ \E k \in TaskKeys : Cardinality(ParentsOf(k)) = 2

\* C2: dependency ordering in the ready-queue engine.  When a task is
\* dispatched, each of its parents has been dispatched before it, the
\* completion time computed for that parent is at most the task's estimated
\* minimum start time, and so the task's computed start is no earlier than
\* the parent's computed end.
C2_DependencyOrder ==
    \A i \in DOMAIN dispatched :
        \A p \in ParentsOf(dispatched[i].task) :
            \E j \in 1..(i - 1) :
                /\ dispatched[j].task = tid(tasks[p])
                /\ dispatched[j].completion <= dispatched[i].min_start
                /\ dispatched[j].completion <= dispatched[i].start

\* A task with two parents that ran on different VMs has been dispatched.
C2_Witness ==
    \E i \in DOMAIN dispatched :
        /\ Cardinality(ParentsOf(dispatched[i].task)) = 2
        /\ \E j, k \in 1..(i - 1) :
                /\ dispatched[j].vm # dispatched[k].vm
                /\ \A d \in {j, k} :
                      \E p \in ParentsOf(dispatched[i].task) :
                            dispatched[d].task = tid(tasks[p])

\* C3: memory feasibility of Best-Fit.  Every emitted assignment names a VM
\* of the input whose memory is at least the memory its task requires.
C3_MemoryFeasible ==
    \A i \in DOMAIN assignments :
        /\ \E j \in DOMAIN vms : vms[j].id = assignments[i].vm_id
        /\ task_map.map[AssignmentKey(assignments[i])].req_memory_mb
                <= VmOfId(vms, assignments[i].vm_id).memory_mb

\* A task was assigned while another VM of the list was too small for it.
C3_Witness ==
    \E i \in DOMAIN assignments :
        \E j \in DOMAIN vms :
            task_map.map[AssignmentKey(assignments[i])].req_memory_mb > vms[j].memory_mb

\* C4: an infeasible task in the ready-queue engine.  Once a task that no VM
\* can hold has been taken from the ready list, the call has failed with the
\* no-VM exception, nothing was returned, and no assignment names that task.
C4_InfeasibleFails ==
    \A k \in processed_tasks :
        ~HasSuitableVm(task_map.map[k], vms) =>
            /\ pc = "failed"
            /\ failure = "NoVmFound"
            /\ \A i \in DOMAIN assignments : AssignmentKey(assignments[i]) # k

\* The call failed on a task that is not the first one dispatched.
C4_Witness ==
    /\ pc = "failed"
    /\ failure = "NoVmFound"
    /\ assignments # <<>>
    /\ \E k \in processed_tasks : ~HasSuitableVm(task_map.map[k], vms)

\* Every workflow of the HEFT input lists its tasks with the local ids
\* 0, 1, ... in that order (the child relation of the inputs already is a
\* DAG whose only parentless task is task 0).
HeftValidInput ==
    \A k \in DOMAIN grouped_tasks :
        \A i \in DOMAIN grouped_tasks[k].task_list :
            grouped_tasks[k].task_list[i].id = i - 1

\* The place in grouped_tasks of the workflow of this id.
GroupIndex(w) == CHOOSE k \in DOMAIN grouped_tasks : grouped_tasks[k].workflow_id = w

\* The input task of HEFT with this key.
HeftTask(k) == htasks[CHOOSE i \in DOMAIN htasks : tid(htasks[i]) = k]

\* The entries of a list of HEFT assignments that name this task key.
EntriesOf(as, k) == {i \in DOMAIN as : AssignmentKey(as[i]) = k}

\* Each entry was extracted from an event placed for the real task it names.
FromOwnEvents(as) ==
    \A i \in DOMAIN as :
        /\ as[i].event_task \in DOMAIN origin
        /\ origin[as[i].event_task] =
                [workflow_id |-> as[i].workflow_id, node |-> as[i].task_id,
                 dummy |-> FALSE]

C6_HeftDependencyOrder ==
    HeftValidInput =>
        \A i, j \in DOMAIN hassignments :
            LET p == hassignments[i]
                c == hassignments[j]
            IN (/\ p.workflow_id = c.workflow_id
                /\ c.task_id \in Range(HeftTask(AssignmentKey(p)).child_ids))
               => /\ c.start >= p.end
                  /\ p.vm_id # c.vm_id => c.start >= p.end + TimeScale

\* A child was placed on another VM than its parent.
C6_Witness ==
    /\ HeftValidInput
    /\ \E i, j \in DOMAIN hassignments :
            /\ hassignments[i].workflow_id = hassignments[j].workflow_id
            /\ hassignments[j].task_id
                    \in Range(HeftTask(AssignmentKey(hassignments[i])).child_ids)
            /\ hassignments[i].vm_id # hassignments[j].vm_id

\* C7 as stated: no task of the second workflow starts before its VM became
\* free from the first workflow's tasks, that is before the end of any task
\* of the first workflow on that VM.
C7_StartsAfterFirstWorkflow ==
    HeftValidInput =>
        \A i, j \in DOMAIN hassignments :
            LET a == hassignments[i]
                b == hassignments[j]
            IN (/\ GroupIndex(a.workflow_id) < GroupIndex(b.workflow_id)
                /\ a.vm_id = b.vm_id)
               => b.start >= a.end

\* C7, amended: the cumulative schedule still holds the busy interval of
\* every task extracted so far, and the interval given to a task of a later
\* workflow does not overlap the interval of a task of an earlier workflow
\* on the same VM: it starts no earlier than that one ends, or it lies in an
\* idle gap and ends no later than that one starts.
C7_HeftChaining ==
    HeftValidInput =>
        /\ \A i \in DOMAIN hassignments :
              LET a == hassignments[i] IN
              ScheduleEvent(a.event_task, a.start, a.end, a.vm_id)
                    \in Range(sched.map[a.vm_id + 1])
        /\ \A i, j \in DOMAIN hassignments :
              LET a == hassignments[i]
                  b == hassignments[j]
              IN (/\ GroupIndex(a.workflow_id) < GroupIndex(b.workflow_id)
                  /\ a.vm_id = b.vm_id)
                 => b.start >= a.end \/ b.end <= a.start

\* A task of the second workflow shares its VM with a task of the first.
C7_Witness ==
    /\ HeftValidInput
    /\ \E i, j \in DOMAIN hassignments :
            /\ GroupIndex(hassignments[i].workflow_id)
                    < GroupIndex(hassignments[j].workflow_id)
            /\ hassignments[i].vm_id = hassignments[j].vm_id
            /\ hassignments[j].start >= hassignments[i].end

\* C8: memory feasibility of HEFT.  For every returned assignment the input
\* VM that carries the assignment's vm id has the memory the task requires.
C8_HeftMemoryFeasible ==
    (hpc = "returned" /\ HeftValidInput) =>
        \A i \in DOMAIN hresult :
            \E j \in DOMAIN hvms :
                /\ hvms[j].id = hresult[i].vm_id
                /\ HeftTask(AssignmentKey(hresult[i])).req_memory_mb <= hvms[j].memory_mb

C10_HeftCountChecked ==
    hpc = "returned" =>
        \A k \in DOMAIN grouped_tasks :
            Cardinality({i \in DOMAIN hresult :
                            hresult[i].workflow_id = grouped_tasks[k].workflow_id})
                = Len(grouped_tasks[k].task_list)

\* The one-to-one maps of 1..n onto itself.
Rearrangements(n) == {f \in [1..n -> 1..n] : \A i, j \in 1..n : f[i] = f[j] => i = j}

\* The place of an extracted entry's event in its VM's list of the schedule.
EventIndex(a) ==
    CHOOSE x \in DOMAIN sched.map[a.vm_id + 1] :
        sched.map[a.vm_id + 1][x] = ScheduleEvent(a.event_task, a.start, a.end, a.vm_id)

\* C11: the order of the HEFT output.  The entries are emitted workflow by
\* workflow in the order of grouped_tasks, within a workflow VM by VM in
\* the order of the VM list, and within a VM in the order of its events.
\* The returned list is a rearrangement of the emitted entries in which the
\* start times never decrease and entries of equal start time stand in the
\* order of their emission.
C11_HeftOutputOrder ==
    /\ \A i, j \in DOMAIN hassignments :
          LET a == hassignments[i]
              b == hassignments[j]
          IN i < j =>
                /\ GroupIndex(a.workflow_id) <= GroupIndex(b.workflow_id)
                /\ a.workflow_id = b.workflow_id => a.vm_id <= b.vm_id
                /\ (a.workflow_id = b.workflow_id /\ a.vm_id = b.vm_id)
                        => EventIndex(a) < EventIndex(b)
    /\ hpc = "returned" =>
          /\ Len(hresult) = Len(hassignments)
          /\ \E f \in Rearrangements(Len(hresult)) :
                /\ \A i \in DOMAIN hresult : hresult[i] = hassignments[f[i]]
                /\ \A i, j \in DOMAIN hresult :
                      i < j =>
                        /\ hresult[i].start <= hresult[j].start
                        /\ hresult[i].start = hresult[j].start => f[i] < f[j]

\* The sort moved an entry, and two returned entries of different workflows
\* have the same start time.
C11_Witness ==
    /\ hpc = "returned"
    /\ hresult # hassignments
    /\ \E i, j \in DOMAIN hresult :
            /\ i < j
            /\ hresult[i].start = hresult[j].start
            /\ hresult[i].workflow_id # hresult[j].workflow_id

\* C12: monotonicity of the VM completion times.  In a step of the dispatch
\* loop no VM's estimated completion time decreases, and the VM the step
\* assigns its task to ends the step with a completion time of at least its
\* previous one plus the computation time of the task on that VM.
C12_VmCompletionMonotone ==
    [][(pc = "running" /\ pc' = "running" /\ Len(dispatched') = Len(dispatched) + 1)
        => LET d == dispatched'[Len(dispatched')]
               before == est_vm_completion_times.map
               after == est_vm_completion_times'.map
           IN /\ DOMAIN after = DOMAIN before
              /\ \A v \in DOMAIN before : after[v] >= before[v]
              /\ after[vid(vms[d.vm])] >=
                    before[vid(vms[d.vm])]
                        + ComputationTime(task_map.map[d.task], vms[d.vm])]_vars

\* A VM was given a second task that had to wait for a parent on another
\* VM: it started after the VM's previous completion time.
C12_Witness ==
    \E i, j \in DOMAIN dispatched :
        /\ i < j
        /\ dispatched[i].vm = dispatched[j].vm
        /\ \A k \in (i + 1)..(j - 1) : dispatched[k].vm # dispatched[i].vm
        /\ dispatched[j].start > dispatched[i].completion
        /\ est_vm_completion_times = None

\* C13: determinism and re-entrancy.  A call that has ended on an instance
\* with earlier calls behind it, completed or failed, on the same or on other
\* inputs, ended as every earlier call of that instance on the same tasks
\* and VMs did, the first of them on the fresh instance: the same outcome,
\* the same assignment sequence and, in the ready-queue engine, the same
\* estimated times at every dispatch.
C13_Reentrant ==
    /\ pc \in {"returned", "failed"} =>
          \A i \in DOMAIN runs :
              (runs[i].tasks = tasks /\ runs[i].vms = vms) => runs[i] = EndedCall
    /\ hpc \in {"returned", "failed"} =>
          \A i \in DOMAIN hruns :
              (hruns[i].tasks = htasks /\ hruns[i].vms = hvms) => hruns[i] = EndedHeftCall

\* The third call has returned on the input of the first; the call between
\* them, on another input, failed after it had dispatched a task, so the
\* third call began on an instance still holding that call's estimates.
C13_Witness ==
    /\ pc = "returned"
    /\ Len(runs) = 2
    /\ runs[1].tasks = tasks
    /\ runs[1].vms = vms
    /\ runs[2].tasks # tasks
    /\ runs[2].outcome = "failed"
    /\ runs[2].assignments # <<>>
    /\ Len(vms) = 2
    /\ Len(assignments) = 2

\* C14: the run state is discarded when a call ends.  Once a call has
\* ended, by returning or by failing, the instance holds neither the map of
\* the VM completion times nor the map of the task minimum start times.
C14_RunStateDiscarded ==
    pc \in {"returned", "failed"} =>
        /\ est_vm_completion_times = None
        /\ est_task_min_start_times = None

\* C15: no partial result.  A call that returns has dispatched every input
\* task and returns as many assignments as there are input tasks; a call
\* whose loop has ended with some input task never dispatched has failed
\* on the assertion of the count.
C15_NoPartialResult ==
    /\ pc = "returned" =>
          /\ Len(assignments) = Len(tasks)
          /\ \A i \in DOMAIN tasks :
                /\ tid(tasks[i]) \in processed_tasks
                /\ \E j \in DOMAIN assignments :
                        AssignmentKey(assignments[j]) = tid(tasks[i])
    /\ (/\ pc \in {"returned", "failed"}
        /\ ready_tasks = <<>>
        /\ failure \notin {"NoVmFound", "KeyError"}
        /\ \E i \in DOMAIN tasks : tid(tasks[i]) \notin processed_tasks)
            => (pc = "failed" /\ failure = "AssertionError")

\* The loop dispatched the tasks of one workflow and ended without any task
\* of another workflow, which has no task of local id 0: the call failed on
\* the assertion.
C15_Witness ==
    /\ pc = "failed"
    /\ failure = "AssertionError"
    /\ assignments # <<>>
    /\ \E i \in DOMAIN tasks :
            /\ tid(tasks[i]) \notin processed_tasks
            /\ \A j \in DOMAIN tasks :
                    tasks[j].workflow_id = tasks[i].workflow_id => tasks[j].id # 0

\* The place in dispatched of the task of this key.
DispatchIndex(k) == CHOOSE i \in DOMAIN dispatched : dispatched[i].task = k

\* C16: the diamond scenario under Best-Fit.  On every diamond A is assigned
\* to VM1, the first VM of the list, and D is dispatched last, after B and
\* C, with a start no earlier than the later of their completion times and
\* a completion time that is the makespan.  On the scenario's lengths and
\* speeds the assignments are A on VM1, B on VM2, C on VM1, D on VM1 and the
\* makespan, the completion time of D, is 250.
C16_DiamondScenario ==
    (pc = "returned" /\ tasks \in DiamondTaskLists) =>
        /\ assignments[1] = [vm_id |-> vms[1].id, workflow_id |-> 0, task_id |-> 0]
        /\ dispatched[4].task = <<0, 3>>
        /\ dispatched[4].start >= Max2(dispatched[DispatchIndex(<<0, 1>>)].completion,
                                       dispatched[DispatchIndex(<<0, 2>>)].completion)
        /\ \A i \in DOMAIN dispatched :
                /\ dispatched[i].completion <= dispatched[4].completion
                /\ dispatched[i].completion =
                        Max2(dispatched[i].start, dispatched[i].min_start)
                            + (tasks[dispatched[i].task[2] + 1].length * TimeScale)
                                    \div vms[dispatched[i].vm].cpu_speed_mips
        /\ (tasks = DiamondTasks /\ vms = DiamondVms) =>
                /\ assignments =
                        <<[vm_id |-> 1, workflow_id |-> 0, task_id |-> 0],
                          [vm_id |-> 2, workflow_id |-> 0, task_id |-> 1],
                          [vm_id |-> 1, workflow_id |-> 0, task_id |-> 2],
                          [vm_id |-> 1, workflow_id |-> 0, task_id |-> 3]>>
                /\ dispatched[4].start = 200 * TimeScale
                /\ dispatched[4].completion = 250 * TimeScale

\* The run of the scenario's diamond on VM1 of speed 1 and VM2 of speed 2
\* has returned.
C16_Witness ==
    /\ pc = "returned"
    /\ tasks = DiamondTasks
    /\ vms = DiamondVms
    /\ Len(assignments) = 4

AlgorithmNames ==
    [round_robin |-> "RoundRobinScheduler", best_fit |-> "BestFitScheduler",
     min_min |-> "MinMinScheduler", max_min |-> "MaxMinScheduler",
     cp_sat |-> "CpSatScheduler", heft |-> "HeftScheduler",
     heft_one |-> "HeftOneScheduler", power_saving |-> "PowerSavingScheduler",
     rl_static |-> "RlStaticScheduler"]

PrefixForms ==
    [rlh |-> "RlHeuristicScheduler", rl |-> "RlTestScheduler", fjssp |-> "FjsspScheduler"]

VizStrategyNames ==
    [round_robin |-> "RoundRobinScheduler", best_fit |-> "BestFitScheduler",
     min_min |-> "MinMinScheduler", max_min |-> "MaxMinScheduler",
     cp_sat |-> "CpSatScheduler", heft |-> "HeftScheduler",
     power_saving |-> "PowerSavingScheduler", gin_e |-> "GinEAgentScheduler"]

Exceptions == {"ValueError", "AssertionError", "IndexError"}

\* C18: scheduler selection.  Each get_scheduler gives a Best-Fit scheduler
\* for "best_fit" and a HEFT scheduler for "heft"; it raises ValueError for
\* every identifier that is neither one of its algorithm names nor of one of
\* its prefix forms (for viz_results: whose part before the first colon is
\* none of its strategy names); and whenever it gives a scheduler, it is
\* the one the identifier's name or prefix names, never a default.
C18_SchedulerSelection ==
    /\ selected # "nothing" =>
          /\ algorithm = <<"best_fit">> => selected = "BestFitScheduler"
          /\ algorithm = <<"heft">> => selected = "HeftScheduler"
          /\ (/\ ~(Len(algorithm) = 1 /\ algorithm[1] \in DOMAIN AlgorithmNames)
              /\ ~(Len(algorithm) >= 2 /\ algorithm[1] \in DOMAIN PrefixForms))
                => selected = "ValueError"
          /\ selected \notin Exceptions =>
                \/ Len(algorithm) = 1 /\ algorithm[1] \in DOMAIN AlgorithmNames
                        /\ selected = AlgorithmNames[algorithm[1]]
                \/ Len(algorithm) >= 2 /\ algorithm[1] \in DOMAIN PrefixForms
                        /\ selected = PrefixForms[algorithm[1]]
    /\ viz_selected # "nothing" =>
          /\ algorithm = <<"best_fit">> => viz_selected = "BestFitScheduler"
          /\ algorithm = <<"heft">> => viz_selected = "HeftScheduler"
          /\ algorithm[1] \notin DOMAIN VizStrategyNames => viz_selected = "ValueError"
          /\ viz_selected \notin Exceptions =>
                /\ algorithm[1] \in DOMAIN VizStrategyNames
                /\ viz_selected = VizStrategyNames[algorithm[1]]

\* Both functions raised ValueError on an identifier that has the name of
\* an algorithm as a proper prefix.
C18_Witness ==
    /\ algorithm = <<"heft2">>
    /\ selected = "ValueError"
    /\ viz_selected = "ValueError"

\* The reference choice: the places in the VM list of the suitable VMs, of
\* those with the largest ratio req_memory_mb / memory_mb (the smallest
\* memory), of those again with the smallest estimated completion time, and
\* the earliest of these; 0 when no VM is suitable.
SuitablePlaces(task, vmlist) == {j \in DOMAIN vmlist : task.req_memory_mb <= vmlist[j].memory_mb}

TightestPlaces(task, vmlist) ==
    {j \in SuitablePlaces(task, vmlist) :
        \A k \in SuitablePlaces(task, vmlist) : vmlist[j].memory_mb <= vmlist[k].memory_mb}

EarliestFreePlaces(task, vmlist, ct) ==
    {j \in TightestPlaces(task, vmlist) :
        \A k \in TightestPlaces(task, vmlist) : ct[vmlist[j].id] <= ct[vmlist[k].id]}

ReferenceChoice(task, vmlist, ct) ==
    IF SuitablePlaces(task, vmlist) = {} THEN 0
    ELSE CHOOSE j \in EarliestFreePlaces(task, vmlist, ct) :
            \A k \in EarliestFreePlaces(task, vmlist, ct) : j <= k

\* C19: the VM choice of Best-Fit is the reference choice.  schedule_next
\* returns the suitable VM of the largest ratio, among the VMs of that ratio
\* the one of the smallest current estimated completion time, and among
\* those the earliest of the VM list (and raises when no VM is suitable).
C19_BestFitReferenceChoice ==
    pc = "chosen" =>
        dispatched[1].vm = ReferenceChoice(tasks[1], vms, est_vm_completion_times.map)

\* The choice fell on the last of three suitable VMs: it shares the largest
\* ratio with the second, and is free before it, while the first, of a
\* smaller ratio, is free before both.
C19_Witness ==
    /\ pc = "chosen"
    /\ dispatched[1].vm = 3
    /\ Cardinality(SuitablePlaces(tasks[1], vms)) = 3
    /\ TightestPlaces(tasks[1], vms) = {2, 3}
    /\ est_vm_completion_times.map[vms[1].id] < est_vm_completion_times.map[vms[3].id]
    /\ est_vm_completion_times.map[vms[3].id] < est_vm_completion_times.map[vms[2].id]

\* C20: the readiness invariant.  Before the first dispatch the ready list
\* holds exactly the keys of the tasks of local id 0, each once.  Later,
\* every task in the ready list or the processed set other than an entry
\* task has each of its parents, the tasks of its own workflow naming it as
\* a child, in the processed set.  Tasks of another workflow do not count:
\* while the call runs, a task all of whose own parents are processed is in
\* the ready list or processed, whatever tasks of other workflows name its
\* local id as a child.
C20_Readiness ==
    /\ (pc = "running" /\ processed_tasks = {}) =>
          /\ Range(ready_tasks) = {k \in TaskKeys : k[2] = 0}
          /\ Len(ready_tasks) = Cardinality({k \in TaskKeys : k[2] = 0})
    /\ \A k \in Range(ready_tasks) \cup processed_tasks :
          k[2] # 0 => \A p \in ParentsOf(k) : tid(tasks[p]) \in processed_tasks
    /\ pc \in {"running", "returned"} =>
          \A k \in TaskKeys :
              (/\ k[2] # 0
               /\ \A p \in ParentsOf(k) : tid(tasks[p]) \in processed_tasks)
                  => k \in Range(ready_tasks) \cup processed_tasks

\* A task is ready while a task of the other workflow that names the same
\* local id as a child has not been processed.
C20_Witness ==
    /\ pc = "running"
    /\ \E k \in Range(ready_tasks) :
          /\ k[2] # 0
          /\ \E i \in DOMAIN tasks :
                /\ tasks[i].workflow_id # k[1]
                /\ k[2] \in Range(tasks[i].child_ids)
                /\ tid(tasks[i]) \notin processed_tasks

\* The keys in the order in which they entered the ready list: the entry
\* keys the list starts with, then the keys each iteration appended.
Entered ==
    EntryKeys(tasks) \o ConcatAll([i \in DOMAIN dispatched |-> dispatched[i].entered])

\* The keys of the tasks the first i iterations dispatched.
DispatchedUpTo(i) == {dispatched[j].task : j \in 1..i}

\* The children of the task of iteration i, in its child order, whose
\* parents were all dispatched by the end of that iteration.
ChildrenCompletedBy(i) ==
    LET task == task_map.map[dispatched[i].task]
        keys == [x \in DOMAIN task.child_ids |-> <<task.workflow_id, task.child_ids[x]>>]
    IN SelectSeq(keys,
            LAMBDA k : \A p \in ParentsOf(k) : tid(tasks[p]) \in DispatchedUpTo(i))

\* C21: Best-Fit dispatches first in, first out.  The ready list holds the
\* keys that entered it and were not yet dispatched, in the order of their
\* entry: it starts as the entry tasks in input order; the iteration that dispatches the last
\* parent of a task appends it, the children of one task in that task's
\* child order; and the i-th task dispatched, which is the task of the i-th
\* assignment, is the i-th key that entered the ready list.
C21_FifoDispatch ==
    pc # "idle" =>
        /\ pc = "running" =>
              ready_tasks = SubSeq(Entered, Len(dispatched) + 1, Len(Entered))
        /\ \A i \in DOMAIN tasks :
              tasks[i].id = 0 =>
                \E x \in 1..Len(EntryKeys(tasks)) :
                    /\ Entered[x] = tid(tasks[i])
                    /\ \A j \in 1..(i - 1) :
                          tasks[j].id = 0 =>
                            \E y \in 1..(x - 1) : Entered[y] = tid(tasks[j])
        /\ \A i \in DOMAIN dispatched :
              /\ dispatched[i].entered = ChildrenCompletedBy(i)
              /\ dispatched[i].task = Entered[i]
        /\ Len(assignments) = Len(dispatched)
        /\ \A i \in DOMAIN assignments : AssignmentKey(assignments[i]) = Entered[i]
        /\ pc = "returned" => Len(Entered) = Len(assignments)

\* A returned run of two workflows: the entry task of the second was
\* dispatched before a task of the first that is listed in front of it, and
\* a task with two parents entered the list only with its second parent.
C21_Witness ==
    /\ pc = "returned"
    /\ \E i, j \in DOMAIN dispatched :
            /\ i < j
            /\ dispatched[i].task[1] = 1
            /\ dispatched[j].task[1] = 0
    /\ \E i, j \in DOMAIN dispatched :
            /\ i < j
            /\ dispatched[j].entered # <<>>
            /\ \E k \in Range(dispatched[j].entered) :
                    \E p \in ParentsOf(k) : tid(tasks[p]) = dispatched[i].task

\* C22: the frame of a dispatch step.  The iteration that dispatches task t
\* on VM v sets v's completion time to the larger of v's old completion time
\* and t's minimum start time, plus t.length / v.cpu_speed_mips; it sets the
\* minimum start time of each child of t in t's workflow to the larger of
\* its old value and that completion time; and it leaves every other VM's
\* completion time and every other task's minimum start time as they were.
\* choose_next and schedule_next called on their own leave both maps and the
\* ready list as they were.
C22_DispatchFrame ==
    [][/\ (pc = "running" /\ pc' = "running" /\ Len(dispatched') = Len(dispatched) + 1)
            => LET d == dispatched'[Len(dispatched')]
                   t == task_map.map[d.task]
                   v == vid(vms[d.vm])
                   vm_before == est_vm_completion_times.map
                   vm_after == est_vm_completion_times'.map
                   ts_before == est_task_min_start_times.map
                   ts_after == est_task_min_start_times'.map
               IN /\ DOMAIN vm_after = DOMAIN vm_before
                  /\ DOMAIN ts_after = DOMAIN ts_before
                  /\ vm_after[v] = Max2(vm_before[v], ts_before[d.task])
                                    + (t.length * TimeScale) \div vms[d.vm].cpu_speed_mips
                  /\ \A u \in DOMAIN vm_before : u # v => vm_after[u] = vm_before[u]
                  /\ \A k \in DOMAIN ts_before :
                        IF k[1] = t.workflow_id /\ k[2] \in Range(t.child_ids)
                        THEN ts_after[k] = Max2(ts_before[k], vm_after[v])
                        ELSE ts_after[k] = ts_before[k]
       /\ pc' = "chosen"
            => /\ est_vm_completion_times' = est_vm_completion_times
               /\ est_task_min_start_times' = est_task_min_start_times
               /\ ready_tasks' = ready_tasks]_vars

\* A task with a child was dispatched on one of two VMs, in a run in which
\* a task of the other workflow carries the local id of that child.
C22_Witness ==
    /\ pc = "running"
    /\ Len(vms) = 2
    /\ \E i \in DOMAIN dispatched :
          LET t == task_map.map[dispatched[i].task] IN
          \E c \in Range(t.child_ids) :
              \E k \in TaskKeys : k[1] # t.workflow_id /\ k[2] = c

\* Every task of the running call has a VM of the list that can hold it.
AllTasksSuitable == \A i \in DOMAIN tasks : HasSuitableVm(tasks[i], vms)

\* C23: termination of the dispatch loop.  A call on a valid input in which
\* every task has a suitable VM comes to the end of its loop, with an empty
\* ready list, and returns, after exactly as many iterations as the input
\* has tasks.
C23_Termination ==
    (pc = "running" /\ AllTasksSuitable)
        ~> (/\ pc = "returned"
            /\ ready_tasks = <<>>
            /\ Len(dispatched) = Len(tasks))

\* A call on four tasks has returned; one of the two VMs could not hold
\* one of the tasks, the other could hold every task.
C23_Witness ==
    /\ pc = "returned"
    /\ AllTasksSuitable
    /\ Len(tasks) = 4
    /\ Len(dispatched) = 4
    /\ \E i \in DOMAIN tasks, j \in DOMAIN vms : ~is_vm_suitable(vms[j], tasks[i])

\* The assignments a list gives to the tasks of workflow w, in its order.
AssignmentsOf(as, w) == SelectSeq(as, LAMBDA a : a.workflow_id = w)

\* C24 as stated: the VM a run over several workflows chose for a task is
\* the VM the run of the task's workflow alone, on the same VM list, chooses
\* for it.
C24_SameVmAlone ==
    Len(runs) = 1 =>
        \A i \in DOMAIN assignments :
            \A j \in DOMAIN runs[1].assignments :
                AssignmentKey(runs[1].assignments[j]) = AssignmentKey(assignments[i])
                    => runs[1].assignments[j].vm_id = assignments[i].vm_id

\* C24, amended: the workflows of a Best-Fit run depend on each other only
\* through the estimated completion times of the VMs.  The run over several
\* workflows fails only on a task without a suitable VM; it dispatches the
\* tasks of each workflow in the order of the run of that workflow alone;
\* and the VM it chose for a task has the memory of the VM chosen for that
\* task alone (the same VM when no other VM has that memory).
C24_CoupledByTimesOnly ==
    Len(runs) = 1 =>
        LET batch == runs[1]
            mine == AssignmentsOf(batch.assignments, tasks[1].workflow_id)
        IN /\ batch.outcome = "failed" => batch.failure = "NoVmFound"
           /\ batch.outcome = "returned" => Len(mine) = Len(tasks)
           /\ \A i \in DOMAIN assignments :
                 i <= Len(mine) =>
                    /\ AssignmentKey(mine[i]) = AssignmentKey(assignments[i])
                    /\ VmOfId(vms, mine[i].vm_id).memory_mb
                            = VmOfId(vms, assignments[i].vm_id).memory_mb
                    /\ Cardinality({j \in DOMAIN vms :
                            vms[j].memory_mb = VmOfId(vms, mine[i].vm_id).memory_mb}) = 1
                          => mine[i].vm_id = assignments[i].vm_id

\* Both runs returned, the workflow has two tasks or more, and the two runs
\* chose different VMs for one of them.
C24_Witness ==
    /\ Len(runs) = 1
    /\ pc = "returned"
    /\ runs[1].outcome = "returned"
    /\ Len(tasks) >= 2
    /\ \E i \in DOMAIN assignments :
          AssignmentsOf(runs[1].assignments, tasks[1].workflow_id)[i].vm_id
                # assignments[i].vm_id

\* The DiGraph schedule_workflow builds for a task list, the upward ranks
\* of its nodes on a VM list, and the order the nodes are placed in.
WorkflowDag(task_list) ==
    [nodes |-> DagNodes(<<Len(task_list)>>, task_list),
     edges |-> DagEdges(task_list, Len(task_list))]

RanksOf(task_list, vmlist) ==
    [x \in Range(WorkflowDag(task_list).nodes) |->
        RankU(WorkflowDag(task_list), CompMatrix(task_list, vmlist),
              CommMatrix(Len(vmlist)), x)]

ProcessingOrder(task_list, vmlist) ==
    LET dag == WorkflowDag(task_list) IN
    RootFirst(SortByRank(dag.nodes, RanksOf(task_list, vmlist)),
              CHOOSE r \in Range(dag.nodes) : Predecessors(dag, r) = {})

Position(order, x) == CHOOSE i \in DOMAIN order : order[i] = x

\* C25: the processing order of HEFT respects the dependencies.  In every
\* workflow that was scheduled, each task has a larger upward rank than each
\* of its children, and so stands before it in the order of placement; the
\* call never fails on the assertion that the parents of the task being
\* placed have been placed.
C25_HeftProcessingOrder ==
    HeftValidInput =>
        /\ hfailure # "AssertionError"
        /\ \A k \in 1..(hk - 1) :
              LET task_list == grouped_tasks[k].task_list
                  order == ProcessingOrder(task_list, hvms)
                  rank == RanksOf(task_list, hvms)
              IN \A i \in DOMAIN task_list :
                    \A c \in Range(task_list[i].child_ids) :
                        /\ rank[task_list[i].id] > rank[c]
                        /\ Position(order, task_list[i].id) < Position(order, c)

\* A workflow was scheduled in which a task is placed before a task of a
\* smaller local id: the order of placement is not the order of the list.
C25_Witness ==
    /\ HeftValidInput
    /\ hpc = "returned"
    /\ \E k \in 1..(hk - 1) :
          LET task_list == grouped_tasks[k].task_list
              order == ProcessingOrder(task_list, hvms)
          IN \E i, j \in DOMAIN order :
                /\ i < j
                /\ order[i] > order[j]
                /\ order[i] < Len(task_list)

\* The offset the node ids of the workflow being scheduled are shifted by:
\* the number of the events the cumulative schedule holds.
HeftOffset == IF sched.is_none THEN 0 ELSE NumExistingJobs(sched.map)

\* The event a schedule holds for the node of this id.
EventOfNode(ps, x) == CHOOSE e \in AllEvents(ps) : e.task = x

\* The schedule as it was when the i-th node of the order was placed: of
\* the final lists ps, the events of the earlier workflows (ids below the
\* offset) and of the nodes placed before it.
PlacedBefore(ps, off, order, i) ==
    [p \in DOMAIN ps |->
        SelectSeq(ps[p],
            LAMBDA e : e.task < off \/ \E j \in 1..(i - 1) : e.task = order[j] + off)]

\* The dependency-ready time of the task of local id c on processor p: the
\* latest, over its parents, of the parent's end, plus one time unit of
\* communication when the parent is on another processor.
DependencyReady(ps, task_list, off, c, p) ==
    SetMax({0} \cup
        {LET parent == EventOfNode(ps, task_list[i].id + off) IN
         parent.end + (IF parent.proc = p THEN 0 ELSE TimeScale)
         : i \in {x \in DOMAIN task_list : c \in Range(task_list[x].child_ids)}})

\* A job of this computation time started at s overlaps no event of the list.
Fits(jobs, s, computation_time) ==
    \A e \in Range(jobs) : s >= e.end \/ s + computation_time <= e.start

\* The earliest time, no earlier than ready_time, at which the job fits in
\* an idle gap of the list or after its last event.
EarliestStart(jobs, ready_time, computation_time) ==
    LET starts == {s \in {ready_time} \cup {e.end : e \in Range(jobs)} :
                        s >= ready_time /\ Fits(jobs, s, computation_time)}
    IN CHOOSE s \in starts : \A u \in starts : s <= u

C27_HeftChainingFrame ==
    [][(hpc = "looping" /\ hk' = hk + 1)
        => /\ ~sched.is_none =>
                /\ DOMAIN sched'.map = DOMAIN sched.map
                /\ \A p \in DOMAIN sched.map :
                      /\ SelectSeq(sched'.map[p], LAMBDA e : e.task < HeftOffset)
                            = sched.map[p]
                      /\ \A e \in Range(sched.map[p]) : e.proc = p - 1
           /\ Len(hassignments') >= Len(hassignments)
           /\ SubSeq(hassignments', 1, Len(hassignments)) = hassignments
           /\ \A i \in (Len(hassignments) + 1)..Len(hassignments') :
                 /\ hassignments'[i].workflow_id = grouped_tasks[hk].workflow_id
                 /\ hassignments'[i].event_task >= HeftOffset
                 /\ \A j \in DOMAIN hassignments :
                       hassignments[j].event_task # hassignments'[i].event_task]_vars

\* Two workflows were scheduled, and on some VM a task of the second stands
\* in the schedule in front of a task of the first.
C27_Witness ==
    /\ hk = 3
    /\ \E p \in DOMAIN sched.map :
          \E i, j \in DOMAIN sched.map[p] :
              LET a == origin[sched.map[p][i].task]
                  b == origin[sched.map[p][j].task]
              IN /\ i < j
                 /\ ~a.dummy
                 /\ ~b.dummy
                 /\ a.workflow_id = grouped_tasks[2].workflow_id
                 /\ b.workflow_id = grouped_tasks[1].workflow_id

\* C28: no task is dispatched twice.  In a run on an input that gives every
\* task a key of its own, whatever its child lists are, no key is dispatched
\* in two iterations, the ready list holds no key twice, and no key of the
\* processed set is in the ready list.
C28_NoDoubleDispatch ==
    (pc # "idle" /\ Cardinality(TaskKeys) = Len(tasks)) =>
        /\ \A i, j \in DOMAIN dispatched :
              dispatched[i].task = dispatched[j].task => i = j
        /\ \A i, j \in DOMAIN ready_tasks : ready_tasks[i] = ready_tasks[j] => i = j
        /\ Range(ready_tasks) \cap processed_tasks = {}

\* The events of positive length of a VM's list in the cumulative schedule.
BusyIntervals(p) == {e \in Range(sched.map[p]) : e.end > e.start}

\* C29: no overlap on a VM in HEFT.  After each workflow of a batch has been
\* scheduled, any two busy intervals of positive length on one VM of the
\* cumulative schedule, of the same workflow or of different ones, do not
\* overlap: one ends no later than the other starts.
C29_HeftNoOverlap ==
    ~sched.is_none =>
        \A p \in DOMAIN sched.map :
            \A a, b \in BusyIntervals(p) :
                a # b => (a.end <= b.start \/ b.end <= a.start)

\* A batch of two workflows has returned with three busy intervals on one
\* VM, not all of one workflow.
C29_Witness ==
    /\ hpc = "returned"
    /\ Len(grouped_tasks) = 2
    /\ \E p \in DOMAIN sched.map :
          /\ Cardinality(BusyIntervals(p)) = 3
          /\ \E a, b \in BusyIntervals(p) :
                origin[a.task].workflow_id # origin[b.task].workflow_id

\* C30: the cost rows of HEFT follow the identity of the tasks.  The time an
\* extracted entry gives its task on its VM, end - start, is the length of
\* the task of that local id over the speed of that VM, a VM that can hold
\* the task, whatever place the task has in the input list; and a call on
\* the same tasks listed in the order of their ids ends as the call on the
\* list in any other order did, with the same assignments.
C30_CostsByIdentity ==
    /\ \A i \in DOMAIN hassignments :
          LET a == hassignments[i]
              task == HeftTask(AssignmentKey(a))
              vm == hvms[a.vm_id + 1]
          IN /\ is_vm_suitable(vm, task)
             /\ a.end - a.start = ComputationTime(task, vm)
    /\ (Len(hruns) = 1 /\ hpc \in {"returned", "failed"}) =>
          /\ hruns[1].outcome = hpc
          /\ {[vm_id |-> a.vm_id, workflow_id |-> a.workflow_id, task_id |-> a.task_id] :
                    a \in Range(hruns[1].result)}
                = {[vm_id |-> a.vm_id, workflow_id |-> a.workflow_id, task_id |-> a.task_id] :
                    a \in Range(hresult)}

\* C31: the identifiers of the comparison are accepted.  No identifier that
\* the loop of static_all_runner.main passes to get_scheduler reaches the
\* branch of the unknown algorithm: main is never left by the ValueError of
\* get_scheduler, and the identifiers recorded in stats are, in order, the
\* listed ones met so far.
C31_ListedAlgorithmsAccepted ==
    /\ selected # "ValueError"
    /\ main_pc # "idle" => stats = SubSeq(algorithms, 1, Len(stats))
    /\ main_pc = "ended" => stats = algorithms

\* C32: the lifecycle of the simulator runner.  Over any sequence of run
\* and stop calls: is_running holds only while the referenced process is a
\* started one that has not exited, and only the start of a process makes
\* it hold; at most one started process is alive and referenced by the
\* runner; stop on a runner that is not running changes neither the
\* reference nor any process; and after stop is_running is false.
AliveAndReferenced ==
    {p \in DOMAIN processes : processes[p] = "alive" /\ simulator_process = p}

C32_RunnerLifecycle ==
    /\ [](/\ is_running => /\ simulator_process \in DOMAIN processes
                           /\ processes[simulator_process] = "alive"
          /\ Cardinality(AliveAndReferenced) <= 1)
    /\ [][/\ (~is_running /\ is_running') => RunPopen
          /\ (Stop /\ ~is_running) => UNCHANGED <<simulator_process, processes>>
          /\ Stop => ~is_running']_vars

\* stop has ended the second process of the runner, while the first one,
\* which the second run left unreferenced, is still alive.
C32_Witness ==
    /\ runner_outcome = "stop_returned"
    /\ processes = <<"alive", "exited">>
    /\ simulator_process = NoProcess

\* C33: the cache of the static observation.  After every reset and every
\* step the arrays that get_static_obs returned, and the cached ones, are
\* the arrays of the observation the last reset was given: a reset never
\* leaves arrays of an earlier episode in use, and no step changes the
\* arrays computed at the reset.
C33_StaticObsCache ==
    wrapper_outcome # "none" =>
        /\ used_static_obs = ComputeStaticObs(episode_obs)
        /\ static_obs = used_static_obs

\* A step of a second episode whose arrays are not those of the first.
C33_Witness ==
    /\ wrapper_outcome = "step"
    /\ episodes = 2
    /\ episode_changed
    /\ prev_obs # episode_obs


====
